---- MODULE Spec2Model ----
(***************************************************************************)
(* A model of dwarfsql's debug-information extraction engine:              *)
(*   - DwarfSession's lifecycle (open, close, move, destruction),          *)
(*   - the attribute helpers of dwarf_session.cpp (get_die_string, ...,    *)
(*     get_high_pc, get_type_name),                                        *)
(*   - traverse_die and the extractors built on it.                        *)
(* libdwarf is modelled by what the code observes of it: a DIE is a tag,   *)
(* a parent and a set of attributes, each attribute a form and a value;    *)
(* a typed reader succeeds exactly on the forms it decodes.                *)
(***************************************************************************)
EXTENDS Integers, Sequences, FiniteSets, TLC

(***************************************************************************)
(* Bounds of the model.                                                    *)
(***************************************************************************)
\* session objects that exist side by side
MaxSessions == 2
\* DIEs of a binary in the tree-shaped families (unit roots included)
MaxDie == 4
\* DIEs in a chain of type references (the DIE the chain starts at included)
MaxChain == 4
\* passes through the body of get_type_name's loop that the model follows
MaxIter == 4
\* the longest line program of a unit
MaxRows == 3
\* the longest location expression
MaxBytes == 33
\* the passes through the wait loop of HTTP mode that are followed
MaxPolls == 2
\* the signals delivered to the process in HTTP mode
MaxSignals == 2
\* uint64_t is scaled down to WordBits bits: arithmetic is modulo 2^WordBits
WordBits == 13

Word == 2 ^ WordBits
WordMax == Word - 1

VARIABLES
    has_libdwarf,   \* the build: DWARFSQL_HAS_LIBDWARF defined or not
    sessions,       \* the DwarfSession objects: their private fields
    liveHandles,    \* provider: the Dwarf_Debug handles dwarf_init_b gave out
    openFds,        \* OS: the open file descriptors
    misuse,         \* provider/OS: a handle or descriptor was released twice
    bin,            \* the debug information of the binary "a.out"
    cursor,         \* provider: per handle, the units dwarf_next_cu_header_d passed
    last_call,      \* the operation that ran last, with its arguments
    result,         \* what it returned
    tn,             \* get_type_name's locals while its loop runs
    http            \* HTTP mode: run_http_mode, the server and the handlers

vars == <<has_libdwarf, sessions, liveHandles, openFds, misuse, bin, cursor,
          last_call, result, tn, http>>

SessionIds == 1..MaxSessions

(***************************************************************************)
(* HTTP mode (run_http_mode in cli/main.cpp, DwarfsqlHTTPServer).          *)
(*                                                                         *)
(* http.pc is the position of the main thread in run_http_mode; server is  *)
(* TRUE while the local DwarfsqlHTTPServer object is in scope;             *)
(* g_http_server is "null" or "server"; impl is the unique_ptr impl_,      *)
(* "null" or "live"; released is TRUE once the implementation object was   *)
(* destroyed; running is the implementation's own flag; handlers is the    *)
(* set of signals http_signal_handler is installed for. reread is the      *)
(* build: is_running() loads impl_ again for the call after its null       *)
(* check, or keeps the pointer it tested. fault records a call through a   *)
(* null or a released pointer.                                             *)
(***************************************************************************)
Signals == {"SIGINT", "SIGTERM"}

NoHttp ==
    [pc |-> "idle", server |-> FALSE, g_http_server |-> "null", impl |-> "null",
     released |-> FALSE, running |-> FALSE, handlers |-> {}, reread |-> FALSE,
     polls |-> 0, signals |-> 0, fault |-> "none"]

\* DwarfsqlHTTPServer::stop
stop(h) ==
    IF h.impl # "null"
    THEN [h EXCEPT !.running = FALSE, !.impl = "null", !.released = TRUE]
    ELSE h

\* a signal whose disposition is http_signal_handler can arrive at any point
signal_deliverable(h, sig) ==
    sig \in h.handlers

\* http_signal_handler
http_signal_handler(h) ==
    IF h.g_http_server # "null" THEN stop(h) ELSE h

\* DwarfsqlHTTPServer::is_running, the left operand of &&: impl_ is tested
is_running_test(h) ==
    IF h.impl = "null" THEN [h EXCEPT !.pc = "restore_int"]
    ELSE [h EXCEPT !.pc = "is_running_call"]

\* DwarfsqlHTTPServer::is_running, the right operand: impl_->is_running()
is_running_call(h) ==
    IF h.impl = "null"
    THEN [h EXCEPT !.pc = "crashed",
                   !.fault = IF h.reread THEN "null_call" ELSE "released_call"]
    ELSE IF h.running THEN [h EXCEPT !.pc = "sleep"]
    ELSE [h EXCEPT !.pc = "restore_int"]

(***************************************************************************)
(* Small helpers.                                                          *)
(***************************************************************************)
Min(S) == CHOOSE x \in S : \A y \in S : x <= y

RECURSIVE Flatten(_)
Flatten(ss) == IF ss = <<>> THEN <<>> ELSE Head(ss) \o Flatten(Tail(ss))

RECURSIVE SetToSeq(_)
SetToSeq(S) == IF S = {} THEN <<>> ELSE <<Min(S)>> \o SetToSeq(S \ {Min(S)})

Range(s) == {s[i] : i \in 1..Len(s)}

(***************************************************************************)
(* The provider (libdwarf) as the code observes it.                        *)
(*                                                                         *)
(* bin.dies is the sequence of DIEs, a DIE's offset being its index. A DIE *)
(* is [tag, parent, attrs]: parent is the offset of its parent, 0 for the  *)
(* root DIE of a compilation unit; attrs maps every attribute name to      *)
(* [form, val], form "none" standing for an absent attribute.              *)
(* bin.badUnits holds the unit roots dwarf_siblingof_b fails to deliver,   *)
(* bin.lines maps a unit root to its line program (see get_line_info).     *)
(***************************************************************************)
AttrNames ==
    {"name", "linkage_name", "MIPS_linkage_name", "low_pc", "high_pc",
     "decl_line", "external", "declaration", "inline", "type",
     "call_origin", "abstract_origin", "call_return_pc", "call_line",
     "call_tail_call", "location", "accessibility", "virtuality",
     "data_member_location", "byte_size", "bit_size", "bit_offset",
     "const_value", "comp_dir", "producer", "language"}

NoAttr == [form |-> "none", val |-> 0]
NoAttrs == [a \in AttrNames |-> NoAttr]

Die(tag, parent, attrs) == [tag |-> tag, parent |-> parent, attrs |-> attrs @@ NoAttrs]

Offsets(b) == 1..Len(b.dies)

\* the Dwarf_Attribute dwarf_attr hands out for attr of die
die_attr(b, die, attr) == b.dies[die].attrs[attr]

\* dwarf_attr(die, attr, ...) == DW_DLV_OK
dwarf_attr(b, die, attr) == b.dies[die].attrs[attr].form # "none"

\* the typed readers: each succeeds on the forms it decodes
dwarf_formstring(a) == a.form = "string"
dwarf_formudata(a) == a.form \in {"data", "udata"} \/ (a.form = "sdata" /\ a.val >= 0)
dwarf_formsdata(a) == a.form \in {"data", "sdata"}
dwarf_formaddr(a) == a.form \in {"addr", "addrx"}
dwarf_formflag(a) == a.form = "flag"
dwarf_formref(a) == a.form = "ref"
dwarf_global_formref(a) == a.form \in {"ref", "ref_addr"}

\* dwarf_offdie_b(dbg, off, ...) == DW_DLV_OK: a DIE sits at offset off
dwarf_offdie_b(b, off) == off \in Offsets(b)

\* dwarf_child: the first child's offset, 0 for DW_DLV_NO_ENTRY
dwarf_child(b, die) ==
    LET kids == {j \in Offsets(b) : b.dies[j].parent = die}
    IN IF kids = {} THEN 0 ELSE Min(kids)

\* dwarf_siblingof_b(dbg, die, ...): the next sibling's offset, 0 for none
dwarf_siblingof_b(b, die) ==
    LET sibs == {j \in Offsets(b) : /\ j > die
                                    /\ b.dies[die].parent # 0
                                    /\ b.dies[j].parent = b.dies[die].parent}
    IN IF sibs = {} THEN 0 ELSE Min(sibs)

\* the line table of a unit: res tells whether dwarf_srclines_b and
\* dwarf_srclines_from_linecontext succeed on it, rows are its Dwarf_Lines
NoLines == [res |-> "srclines_failed", rows |-> <<>>]
dwarf_srclines_b(b, cu_die) == b.lines[cu_die].res # "srclines_failed"
dwarf_srclines_from_linecontext(b, cu_die) == b.lines[cu_die].res = "ok"

\* the compilation units in file order, each named by its root DIE
Units(b) == SetToSeq({d \in Offsets(b) : b.dies[d].parent = 0})

\* the cursor of a handle that dwarf_next_cu_header_d has not moved
NoCursor == [h \in 1..(MaxSessions + 1) |-> 0]

(***************************************************************************)
(* Attribute helpers (the anonymous namespace of dwarf_session.cpp).       *)
(***************************************************************************)
get_die_string(b, die, attr) ==
    LET a == b.dies[die].attrs[attr] IN
    IF ~dwarf_attr(b, die, attr) THEN ""
    ELSE IF ~dwarf_formstring(a) THEN ""
    ELSE a.val

get_die_unsigned(b, die, attr, default_val) ==
    LET a == b.dies[die].attrs[attr] IN
    IF ~dwarf_attr(b, die, attr) THEN default_val
    ELSE IF ~dwarf_formudata(a)
         THEN IF ~dwarf_formaddr(a) THEN default_val ELSE a.val
    ELSE a.val

get_die_signed(b, die, attr, default_val) ==
    LET a == b.dies[die].attrs[attr] IN
    IF ~dwarf_attr(b, die, attr) THEN default_val
    ELSE IF ~dwarf_formsdata(a)
         THEN IF ~dwarf_formudata(a) THEN default_val ELSE a.val
    ELSE a.val

has_die_attr(b, die, attr) == dwarf_attr(b, die, attr)

get_die_flag(b, die, attr) ==
    LET a == b.dies[die].attrs[attr] IN
    IF ~dwarf_attr(b, die, attr) THEN FALSE
    ELSE IF ~dwarf_formflag(a) THEN FALSE
    ELSE a.val

get_die_offset(die) == die

get_die_tag(b, die) == b.dies[die].tag

get_die_ref(b, die, attr) ==
    LET a == b.dies[die].attrs[attr] IN
    IF ~dwarf_attr(b, die, attr) THEN 0
    ELSE IF ~dwarf_formref(a)
         THEN IF ~dwarf_global_formref(a) THEN 0 ELSE a.val
    ELSE a.val

(***************************************************************************)
(* traverse_die: callback(die, depth), then the first child and each of    *)
(* its siblings at depth + 1. The value is the sequence of callback calls. *)
(***************************************************************************)
RECURSIVE traverse_die(_, _, _), traverse_children(_, _, _)
\* (mutant) the callback runs after the children were walked
traverse_die_callback_last(b, die, depth) ==
    (IF dwarf_child(b, die) # 0
     THEN traverse_children(b, dwarf_child(b, die), depth + 1)
     ELSE <<>>)
    \o <<[die |-> die, depth |-> depth]>>

traverse_die(b, die, depth) ==
    <<[die |-> die, depth |-> depth]>>
    \o (IF dwarf_child(b, die) # 0
        THEN traverse_children(b, dwarf_child(b, die), depth + 1)
        ELSE <<>>)

\* lines 339-346: traverse the child, then loop over dwarf_siblingof_b
traverse_children(b, child, depth) ==
    traverse_die(b, child, depth)
    \o (IF dwarf_siblingof_b(b, child) # 0
        THEN traverse_children(b, dwarf_siblingof_b(b, child), depth)
        ELSE <<>>)

(***************************************************************************)
(* DwarfSession: lifecycle.                                                *)
(***************************************************************************)
\* paths a caller may pass to open(): a binary with debug information, a
\* file that does not exist, an object file without debug sections and a
\* file libdwarf fails to initialise on
Paths == {"a.out", "missing", "nodbg", "corrupt"}

\* ::open(path, O_RDONLY) succeeds
OsOpenOk(p) == p # "missing"

\* what dwarf_init_b answers for the file
DwarfInitRes(p) ==
    CASE p = "nodbg" -> "DW_DLV_NO_ENTRY"
      [] p = "corrupt" -> "DW_DLV_ERROR"
      [] OTHER -> "DW_DLV_OK"

\* dwarf_errmsg(err) when dwarf_init_b fails (DW_DLV_ERROR comes with an error)
InitErrMsgs == {"DW_DLE_FILE_WRONG_TYPE"}

\* the handle dwarf_init_b hands out, the descriptor ::open hands out
NewHandle(live) == Min({h \in 1..(Cardinality(live) + 1) : h \notin live})
NewFd(fds) == Min({f \in 3..(3 + Cardinality(fds)) : f \notin fds})

\* the private fields as the default member initialisers leave them
DefaultSession ==
    [alive |-> FALSE, dbg |-> 0, fd |-> -1, is_open |-> FALSE,
     path |-> "", last_error |-> ""]

is_open(s) == sessions[s].is_open
path(s) == sessions[s].path
last_error(s) == sessions[s].last_error

\* (mutant) close() also clears the error text
close_clears_error(se, live, fds, bad) ==
    [se |-> [se EXCEPT !.dbg = 0, !.fd = -1, !.is_open = FALSE, !.path = "",
                       !.last_error = ""],
     live |-> IF se.dbg # 0 THEN live \ {se.dbg} ELSE live,
     fds |-> IF se.fd >= 0 THEN fds \ {se.fd} ELSE fds,
     misuse |-> bad]

\* close() on a session, given what the provider and the OS hold:
\* dwarf_finish(dbg_) when dbg_ is set, ::close(fd_) when fd_ >= 0, then
\* is_open_ = false and path_.clear(). misuse records a release of
\* something that was not live.
close(se, live, fds, bad) ==
    IF has_libdwarf
    THEN [se |-> [se EXCEPT !.dbg = 0, !.fd = -1, !.is_open = FALSE, !.path = ""],
          live |-> IF se.dbg # 0 THEN live \ {se.dbg} ELSE live,
          fds |-> IF se.fd >= 0 THEN fds \ {se.fd} ELSE fds,
          misuse |-> (bad \/ (se.dbg # 0 /\ se.dbg \notin live)
                          \/ (se.fd >= 0 /\ se.fd \notin fds))]
    ELSE [se |-> [se EXCEPT !.is_open = FALSE, !.path = ""],
          live |-> live, fds |-> fds, misuse |-> bad]

\* a std::string after it was moved from: valid but unspecified
MovedFrom(str) == {"", str}

\* (mutant) a move that leaves the source's handle, descriptor and flag in place
moved_from_keeps_handle(se, p, e) ==
    [se EXCEPT !.path = p, !.last_error = e]

\* the source of a move afterwards: handle, descriptor and flag reset
moved_from_fields(se, p, e) ==
    [se EXCEPT !.dbg = 0, !.fd = -1, !.is_open = FALSE,
               !.path = p, !.last_error = e]

\* the target of a move: every field taken from the source
moved_to_fields(se, src) ==
    [se EXCEPT !.dbg = src.dbg, !.fd = src.fd, !.is_open = src.is_open,
               !.path = src.path, !.last_error = src.last_error]

\* (mutant) open() without its leading close()
open_without_close(se, live, fds, bad) ==
    [se |-> se, live |-> live, fds |-> fds, misuse |-> bad]

\* open(): the leading close()
open_prepare(se, live, fds, bad) == close(se, live, fds, bad)

Idle == [pc |-> "idle"]

Construct(s) ==
    /\ ~sessions[s].alive
    /\ sessions' = [sessions EXCEPT ![s] = [DefaultSession EXCEPT !.alive = TRUE]]
    /\ last_call' = [op |-> "construct", s |-> s]
    /\ result' = "void"
    /\ UNCHANGED <<http, has_libdwarf, liveHandles, openFds, misuse, bin, cursor, tn>>

Close(s) ==
    LET c == close(sessions[s], liveHandles, openFds, misuse) IN
    /\ sessions[s].alive
    /\ sessions' = [sessions EXCEPT ![s] = c.se]
    /\ liveHandles' = c.live
    /\ openFds' = c.fds
    /\ misuse' = c.misuse
    /\ last_call' = [op |-> "close", s |-> s]
    /\ result' = "void"
    /\ UNCHANGED <<http, has_libdwarf, bin, cursor, tn>>

Destroy(s) ==
    LET c == close(sessions[s], liveHandles, openFds, misuse) IN
    /\ sessions[s].alive
    /\ sessions' = [sessions EXCEPT ![s] = DefaultSession]
    /\ liveHandles' = c.live
    /\ openFds' = c.fds
    /\ misuse' = c.misuse
    /\ last_call' = [op |-> "destroy", s |-> s]
    /\ result' = "void"
    /\ UNCHANGED <<http, has_libdwarf, bin, cursor, tn>>

\* open() in a build with libdwarf, after the leading close() left c
open_libdwarf(s, p, c) ==
    IF ~OsOpenOk(p)
    THEN /\ sessions' = [sessions EXCEPT ![s] =
                [c.se EXCEPT !.fd = -1,
                             !.last_error = "Failed to open file: " \o p]]
         /\ openFds' = c.fds
         /\ liveHandles' = c.live
         /\ result' = FALSE
    ELSE IF DwarfInitRes(p) = "DW_DLV_NO_ENTRY"
    THEN /\ sessions' = [sessions EXCEPT ![s] =
                [c.se EXCEPT !.fd = -1,
                             !.last_error = "No DWARF debug info found in: " \o p]]
         /\ openFds' = c.fds
         /\ liveHandles' = c.live
         /\ result' = FALSE
    ELSE IF DwarfInitRes(p) # "DW_DLV_OK"
    THEN \E m \in InitErrMsgs :
         /\ sessions' = [sessions EXCEPT ![s] =
                [c.se EXCEPT !.fd = -1,
                             !.last_error = "Failed to initialize DWARF: " \o m]]
         /\ openFds' = c.fds
         /\ liveHandles' = c.live
         /\ result' = FALSE
    ELSE /\ sessions' = [sessions EXCEPT ![s] =
                [c.se EXCEPT !.fd = NewFd(c.fds), !.dbg = NewHandle(c.live),
                             !.path = p, !.is_open = TRUE]]
         /\ openFds' = c.fds \cup {NewFd(c.fds)}
         /\ liveHandles' = c.live \cup {NewHandle(c.live)}
         /\ result' = TRUE

Open(s, p) ==
    /\ sessions[s].alive
    /\ last_call' = [op |-> "open", s |-> s, path |-> p,
                     was_open |-> sessions[s].is_open]
    /\ UNCHANGED <<http, has_libdwarf, bin, cursor, tn>>
    /\ IF ~has_libdwarf
       THEN /\ sessions' = [sessions EXCEPT ![s].last_error = "libdwarf not available"]
            /\ result' = FALSE
            /\ UNCHANGED <<liveHandles, openFds, misuse>>
       ELSE LET c == open_prepare(sessions[s], liveHandles, openFds, misuse) IN
            /\ misuse' = c.misuse
            /\ open_libdwarf(s, p, c)

MoveConstruct(s, o) ==
    LET src == sessions[o] IN
    /\ s # o
    /\ ~sessions[s].alive
    /\ src.alive
    /\ \E p \in MovedFrom(src.path), e \in MovedFrom(src.last_error) :
         sessions' = [sessions EXCEPT
             ![s] = moved_to_fields([DefaultSession EXCEPT !.alive = TRUE], src),
             ![o] = moved_from_fields(src, p, e)]
    /\ last_call' = [op |-> "move_construct", s |-> s, other |-> o]
    /\ result' = "void"
    /\ UNCHANGED <<http, has_libdwarf, liveHandles, openFds, misuse, bin, cursor, tn>>

MoveAssign(s, o) ==
    LET src == sessions[o]
        c == close(sessions[s], liveHandles, openFds, misuse)
    IN
    /\ sessions[s].alive
    /\ src.alive
    /\ last_call' = [op |-> "move_assign", s |-> s, other |-> o]
    /\ result' = "void"
    /\ UNCHANGED <<http, has_libdwarf, bin, cursor, tn>>
    /\ IF s = o
       THEN UNCHANGED <<sessions, liveHandles, openFds, misuse>>
       ELSE /\ \E p \in MovedFrom(src.path), e \in MovedFrom(src.last_error) :
                 sessions' = [sessions EXCEPT
                     ![s] = moved_to_fields(c.se, src),
                     ![o] = moved_from_fields(src, p, e)]
            /\ liveHandles' = c.live
            /\ openFds' = c.fds
            /\ misuse' = c.misuse

\* the binary behind every path of the lifecycle specification: one unit
\* that holds a single function
LifecycleBin ==
    [dies |-> <<Die("compile_unit", 0, NoAttrs), Die("subprogram", 1, NoAttrs)>>,
     badUnits |-> {}, lines |-> <<NoLines, NoLines>>]

Init ==
    /\ has_libdwarf \in BOOLEAN
    /\ sessions = [s \in SessionIds |-> DefaultSession]
    /\ liveHandles = {}
    /\ openFds = {}
    /\ misuse = FALSE
    /\ bin = LifecycleBin
    /\ cursor = NoCursor
    /\ last_call = [op |-> "none"]
    /\ result = "void"
    /\ tn = Idle
    /\ http = NoHttp

Next ==
    \/ \E s \in SessionIds : Construct(s)
    \/ \E s \in SessionIds : Close(s)
    \/ \E s \in SessionIds : Destroy(s)
    \/ \E s \in SessionIds, p \in Paths : Open(s, p)
    \/ \E s, o \in SessionIds : MoveConstruct(s, o)
    \/ \E s, o \in SessionIds : MoveAssign(s, o)

Spec == Init /\ [][Next]_vars

(***************************************************************************)
(* The extractors that scan every compilation unit.                        *)
(*                                                                         *)
(* A call is [op, s, cu_filter, func_filter]. Each extractor keeps its     *)
(* locals and its result vector in a record st; st.out is the result.      *)
(***************************************************************************)
\* struct DieInfo with its default member initialisers
DieInfo ==
    [offset |-> 0, tag |-> "0", name |-> "", linkage_name |-> "",
     low_pc |-> 0, high_pc |-> 0, byte_size |-> -1, decl_file |-> -1,
     decl_line |-> -1, is_external |-> FALSE, is_declaration |-> FALSE]

\* get_variables: the callback passed to traverse_die
variables_visit(b, call, st, die) ==
    LET tag == get_die_tag(b, die)
        current_func == IF tag = "subprogram" THEN get_die_offset(die)
                        ELSE st.current_func
        st1 == [st EXCEPT !.current_func = current_func]
    IN
    IF tag # "variable" /\ tag # "formal_parameter" THEN st1
    ELSE IF call.func_filter >= 0 /\ current_func # call.func_filter THEN st1
    ELSE [st1 EXCEPT !.out = Append(@,
            [DieInfo EXCEPT
                !.offset = get_die_offset(die),
                !.tag = tag,
                !.name = get_die_string(b, die, "name"),
                !.decl_line = get_die_signed(b, die, "decl_line", 0),
                !.is_external = get_die_flag(b, die, "external")])]

\* DW_INL_* codes of DW_AT_inline
DW_INL_not_inlined == 0
DW_INL_inlined == 1
DW_INL_declared_not_inlined == 2
DW_INL_declared_inlined == 3

\* (mutant) an address-form end is treated as an offset from low_pc too
get_high_pc_addr_plus_low(b, die, low_pc) ==
    LET at == die_attr(b, die, "high_pc") IN
    IF ~dwarf_attr(b, die, "high_pc") THEN 0
    ELSE IF at.form = "addr"
         THEN (IF dwarf_formaddr(at) THEN (low_pc + at.val) % Word ELSE 0)
         ELSE (IF dwarf_formudata(at) THEN (low_pc + at.val) % Word ELSE 0)

\* (mutant) a constant-form end is returned as it is read
get_high_pc_offset_only(b, die, low_pc) ==
    LET at == die_attr(b, die, "high_pc") IN
    IF ~dwarf_attr(b, die, "high_pc") THEN 0
    ELSE IF at.form = "addr"
         THEN (IF dwarf_formaddr(at) THEN at.val ELSE 0)
         ELSE (IF dwarf_formudata(at) THEN at.val ELSE 0)

\* get_high_pc: DW_FORM_addr is the end itself, any other form an unsigned
\* offset from low_pc (uint64_t arithmetic, here WordBits wide)
get_high_pc(b, die, low_pc) ==
    LET at == die_attr(b, die, "high_pc") IN
    IF ~dwarf_attr(b, die, "high_pc") THEN 0
    ELSE IF at.form = "addr"
         THEN (IF dwarf_formaddr(at) THEN at.val ELSE 0)
         ELSE (IF dwarf_formudata(at) THEN (low_pc + at.val) % Word ELSE 0)

\* (mutant) DW_AT_inline is read but does not touch is_declaration
inline_leaves_declaration(b, die, is_declaration) ==
    is_declaration

\* get_functions, "Check for inline": the value is stored in is_declaration
inline_overrides_declaration(b, die, is_declaration) ==
    LET at == die_attr(b, die, "inline") IN
    IF dwarf_attr(b, die, "inline") /\ dwarf_formudata(at)
    THEN at.val \in {DW_INL_declared_inlined, DW_INL_declared_not_inlined}
    ELSE is_declaration

\* get_functions: the callback passed to traverse_die
functions_visit(b, call, st, die) ==
    LET tag == get_die_tag(b, die)
        linkage_name == get_die_string(b, die, "linkage_name")
        low_pc == get_die_unsigned(b, die, "low_pc", 0)
    IN
    IF tag # "subprogram" THEN st
    ELSE [st EXCEPT !.out = Append(@,
            [DieInfo EXCEPT
                !.offset = get_die_offset(die),
                !.tag = tag,
                !.name = get_die_string(b, die, "name"),
                !.linkage_name = IF linkage_name = ""
                                 THEN get_die_string(b, die, "MIPS_linkage_name")
                                 ELSE linkage_name,
                !.low_pc = low_pc,
                !.high_pc = get_high_pc(b, die, low_pc),
                !.decl_line = get_die_signed(b, die, "decl_line", 0),
                !.is_external = get_die_flag(b, die, "external"),
                !.is_declaration = inline_overrides_declaration(b, die,
                                       get_die_flag(b, die, "declaration"))])]

\* struct CallInfo with its default member initialisers
CallInfo ==
    [caller_offset |-> 0, caller_name |-> "", callee_offset |-> 0,
     callee_name |-> "", call_pc |-> 0, call_line |-> 0, is_tail_call |-> FALSE]

\* (mutant) the callee offset is stored only once its DIE was loaded
callee_of_resolved_only(b, info, callee_off) ==
    IF callee_off # 0 /\ dwarf_offdie_b(b, callee_off)
    THEN [info EXCEPT !.callee_offset = callee_off,
                      !.callee_name = get_die_string(b, callee_off, "name")]
    ELSE info

\* get_calls, if (callee_off != 0) { ... }
callee_of(b, info, callee_off) ==
    IF callee_off # 0
    THEN IF dwarf_offdie_b(b, callee_off)
         THEN [info EXCEPT !.callee_offset = callee_off,
                           !.callee_name = get_die_string(b, callee_off, "name")]
         ELSE [info EXCEPT !.callee_offset = callee_off]
    ELSE info

\* get_calls: the callback passed to traverse_die
calls_visit(b, call, st, die) ==
    LET tag == get_die_tag(b, die)
        ref == get_die_ref(b, die, "call_origin")
        callee_off == IF ref = 0 THEN get_die_ref(b, die, "abstract_origin") ELSE ref
        return_pc == get_die_unsigned(b, die, "call_return_pc", 0)
    IN
    IF tag = "subprogram"
    THEN [st EXCEPT !.current_func = get_die_offset(die),
                    !.current_func_name = get_die_string(b, die, "name")]
    ELSE IF tag # "call_site" /\ tag # "GNU_call_site" THEN st
    ELSE [st EXCEPT !.out = Append(@,
            [callee_of(b, [CallInfo EXCEPT !.caller_offset = st.current_func,
                                           !.caller_name = st.current_func_name],
                       callee_off)
             EXCEPT !.call_pc = IF return_pc = 0
                                THEN get_die_unsigned(b, die, "low_pc", 0)
                                ELSE return_pc,
                    !.call_line = get_die_signed(b, die, "call_line", 0),
                    !.is_tail_call = get_die_flag(b, die, "call_tail_call")])]

\* struct LineInfo with its default member initialisers
LineInfo ==
    [address |-> 0, file |-> "", line |-> 0, column |-> 0, is_stmt |-> FALSE,
     basic_block |-> FALSE, end_sequence |-> FALSE]

\* get_line_info: the record built from one Dwarf_Line
line_record(row) ==
    [LineInfo EXCEPT !.address = row.address, !.file = row.file,
                     !.line = row.line, !.column = row.column,
                     !.is_stmt = row.is_stmt, !.basic_block = row.basic_block,
                     !.end_sequence = row.end_sequence]

\* (mutant) rows that end a sequence are not emitted
RECURSIVE without_end_sequence(_)
without_end_sequence(rows) ==
    IF rows = <<>> THEN <<>>
    ELSE (IF Head(rows).end_sequence THEN <<>> ELSE <<line_record(Head(rows))>>)
         \o without_end_sequence(Tail(rows))

lines_unit_drops_end_sequence(b, call, st, cu_die) ==
    IF ~dwarf_srclines_b(b, cu_die) THEN st
    ELSE IF ~dwarf_srclines_from_linecontext(b, cu_die) THEN st
    ELSE [st EXCEPT !.out = @ \o without_end_sequence(b.lines[cu_die].rows)]

\* get_line_info: the body of the unit loop below the cu_filter check
lines_unit(b, call, st, cu_die) ==
    IF ~dwarf_srclines_b(b, cu_die) THEN st
    ELSE IF ~dwarf_srclines_from_linecontext(b, cu_die) THEN st
    ELSE [st EXCEPT !.out =
            @ \o [i \in 1..Len(b.lines[cu_die].rows) |->
                    line_record(b.lines[cu_die].rows[i])]]

\* the tags get_type_name recognises as modifiers, with the text each adds
ModifierTags ==
    {"pointer_type", "reference_type", "rvalue_reference_type", "const_type",
     "volatile_type", "restrict_type", "array_type"}

type_prefix(tag) ==
    CASE tag = "const_type" -> "const "
      [] tag = "volatile_type" -> "volatile "
      [] tag = "restrict_type" -> "restrict "
      [] OTHER -> ""

type_suffix(tag) ==
    CASE tag = "pointer_type" -> "*"
      [] tag = "reference_type" -> "&"
      [] tag = "rvalue_reference_type" -> "&&"
      [] tag = "array_type" -> "[]"
      [] OTHER -> ""

\* get_type_name has returned ret
type_return(ret) == [pc |-> "done", ret |-> ret]

\* get_type_name is at the test of its loop
type_at_loop(b, type_off, prefix, suffix, iter) ==
    [pc |-> "loop", type_die |-> type_off,
     name |-> get_die_string(b, type_off, "name"),
     tag |-> get_die_tag(b, type_off),
     prefix |-> prefix, suffix |-> suffix, iter |-> iter]

\* (mutant) the DIE passed in is itself taken as the first type DIE
type_start_at_die(b, die) ==
    type_at_loop(b, die, "", "", 0)

\* (mutant) a first reference that cannot be loaded gives the empty string
type_start_unknown_is_empty(b, die) ==
    LET type_off == get_die_ref(b, die, "type") IN
    IF type_off = 0 THEN type_return("void")
    ELSE IF ~dwarf_offdie_b(b, type_off) THEN type_return("")
    ELSE type_at_loop(b, type_off, "", "", 0)

\* get_type_name up to its loop: the type reference of die is followed first
type_start(b, die) ==
    LET type_off == get_die_ref(b, die, "type") IN
    IF type_off = 0 THEN type_return("void")
    ELSE IF ~dwarf_offdie_b(b, type_off) THEN type_return("<unknown>")
    ELSE type_at_loop(b, type_off, "", "", 0)

\* (mutant) each modifier is added behind the ones seen before
type_loop_appends(b, t) ==
    IF t.name # "" THEN type_return(t.prefix \o t.name \o t.suffix)
    ELSE IF t.tag \notin ModifierTags
    THEN type_return(t.prefix \o "<anonymous>" \o t.suffix)
    ELSE LET prefix == t.prefix \o type_prefix(t.tag)
             suffix == t.suffix \o type_suffix(t.tag)
             type_off == get_die_ref(b, t.type_die, "type")
         IN  IF type_off = 0 THEN type_return(prefix \o "void" \o suffix)
             ELSE IF ~dwarf_offdie_b(b, type_off)
             THEN type_return(prefix \o "<unknown>" \o suffix)
             ELSE type_at_loop(b, type_off, prefix, suffix, t.iter + 1)

\* (mutant) the loop gives up at the second modifier
type_loop_bounded(b, t) ==
    IF t.name # "" THEN type_return(t.prefix \o t.name \o t.suffix)
    ELSE IF t.tag \notin ModifierTags \/ t.iter >= 1
    THEN type_return(t.prefix \o "<anonymous>" \o t.suffix)
    ELSE LET prefix == type_prefix(t.tag) \o t.prefix
             suffix == type_suffix(t.tag) \o t.suffix
             type_off == get_die_ref(b, t.type_die, "type")
         IN  IF type_off = 0 THEN type_return(prefix \o "void" \o suffix)
             ELSE IF ~dwarf_offdie_b(b, type_off)
             THEN type_return(prefix \o "<unknown>" \o suffix)
             ELSE type_at_loop(b, type_off, prefix, suffix, t.iter + 1)

\* get_type_name: the loop test and, if it holds, one pass through the body
type_loop(b, t) ==
    IF t.name # "" THEN type_return(t.prefix \o t.name \o t.suffix)
    ELSE IF t.tag \notin ModifierTags
    THEN type_return(t.prefix \o "<anonymous>" \o t.suffix)
    ELSE LET prefix == type_prefix(t.tag) \o t.prefix
             suffix == type_suffix(t.tag) \o t.suffix
             type_off == get_die_ref(b, t.type_die, "type")
         IN  IF type_off = 0 THEN type_return(prefix \o "void" \o suffix)
             ELSE IF ~dwarf_offdie_b(b, type_off)
             THEN type_return(prefix \o "<unknown>" \o suffix)
             ELSE type_at_loop(b, type_off, prefix, suffix, t.iter + 1)

\* get_type_name run from state t until it returns; a chain that has not
\* returned after fuel passes runs through a cycle, and the call never returns
RECURSIVE type_run(_, _, _)
type_run(b, t, fuel) ==
    IF t.pc = "done" THEN t.ret
    ELSE IF fuel = 0 THEN "<no return>"
    ELSE type_run(b, type_loop(b, t), fuel - 1)

\* get_type_name as the extractors call it
get_type_name(b, die) == type_run(b, type_start(b, die), Len(b.dies) + 1)

\* snprintf(buf, sizeof(buf), "%02x", byte)
HexDigits ==
    <<"0", "1", "2", "3", "4", "5", "6", "7", "8", "9", "a", "b", "c", "d", "e", "f">>
Hex2(byte) == HexDigits[(byte \div 16) + 1] \o HexDigits[(byte % 16) + 1]

\* the location preview shows at most this many bytes
PreviewBytes == 32

RECURSIVE hex_bytes(_, _, _)
hex_bytes(data, i, len) ==
    IF i < len /\ i < PreviewBytes
    THEN Hex2(data[i + 1]) \o hex_bytes(data, i + 1, len)
    ELSE ""

\* dwarf_formexprloc(at, &len, &block, ...) == DW_DLV_OK: the value of an
\* attribute in an expression or block form is [res, bytes], and the provider
\* hands out the bytes or fails
dwarf_formexprloc(a) == a.val.res = "ok"

\* (mutant) an expression of exactly 32 bytes is marked as cut
get_location_string_marks_full(b, die, attr) ==
    LET at == die_attr(b, die, attr) IN
    IF ~dwarf_attr(b, die, attr) THEN ""
    ELSE IF at.form \in {"exprloc", "block1", "block2", "block4", "block"}
    THEN IF dwarf_formexprloc(at)
         THEN hex_bytes(at.val.bytes, 0, Len(at.val.bytes))
              \o (IF Len(at.val.bytes) >= PreviewBytes THEN "..." ELSE "")
         ELSE ""
    ELSE IF at.form = "sec_offset" THEN "[loclist]"
    ELSE ""

get_location_string(b, die, attr) ==
    LET at == die_attr(b, die, attr) IN
    IF ~dwarf_attr(b, die, attr) THEN ""
    ELSE IF at.form \in {"exprloc", "block1", "block2", "block4", "block"}
    THEN IF dwarf_formexprloc(at)
         THEN hex_bytes(at.val.bytes, 0, Len(at.val.bytes))
              \o (IF Len(at.val.bytes) > PreviewBytes THEN "..." ELSE "")
         ELSE ""
    ELSE IF at.form = "sec_offset" THEN "[loclist]"
    ELSE ""

\* struct NamespaceInfo with its default member initialisers
NamespaceInfo ==
    [offset |-> 0, name |-> "", parent_offset |-> 0, is_anonymous |-> FALSE]

\* (mutant) the parent is the namespace DIE that encloses the visited one
namespace_parent_enclosing(b, st, die) ==
    IF get_die_tag(b, b.dies[die].parent) = "namespace"
    THEN b.dies[die].parent ELSE 0

\* get_namespaces: info.parent_offset = parent_ns
namespace_parent(b, st, die) ==
    st.parent_ns

\* get_namespaces: the callback passed to traverse_die
namespaces_visit(b, call, st, die) ==
    IF get_die_tag(b, die) = "namespace"
    THEN [st EXCEPT
            !.out = Append(@,
                [NamespaceInfo EXCEPT
                    !.offset = get_die_offset(die),
                    !.name = get_die_string(b, die, "name"),
                    !.parent_offset = namespace_parent(b, st, die),
                    !.is_anonymous = get_die_string(b, die, "name") = ""]),
            !.parent_ns = get_die_offset(die)]
    ELSE st

\* struct LocalVarInfo with its default member initialisers
LocalVarInfo ==
    [offset |-> 0, func_offset |-> 0, name |-> "", type |-> "", location |-> "",
     decl_line |-> 0, scope_low_pc |-> 0, scope_high_pc |-> 0]

\* (mutant) variables are taken at every depth
locals_at_cu_level_never(depth) ==
    FALSE

\* get_local_variables, "Skip if at CU level": if (depth <= 1) return
locals_at_cu_level(depth) ==
    depth <= 1

\* (mutant) a lexical block leaves the tracked range alone
locals_visit_blocks_ignored(b, call, st, die, depth) ==
    LET tag == get_die_tag(b, die)
        low == get_die_unsigned(b, die, "low_pc", 0)
    IN
    IF tag = "subprogram"
    THEN [st EXCEPT !.current_func = get_die_offset(die),
                    !.scope_low = low,
                    !.scope_high = get_high_pc(b, die, low)]
    ELSE IF tag = "lexical_block" THEN st
    ELSE IF tag # "variable" THEN st
    ELSE IF locals_at_cu_level(depth) THEN st
    ELSE IF call.func_filter >= 0 /\ st.current_func # call.func_filter THEN st
    ELSE [st EXCEPT !.out = Append(@,
            [LocalVarInfo EXCEPT
                !.offset = get_die_offset(die),
                !.func_offset = st.current_func,
                !.name = get_die_string(b, die, "name"),
                !.type = get_type_name(b, die),
                !.location = get_location_string(b, die, "location"),
                !.decl_line = get_die_signed(b, die, "decl_line", 0),
                !.scope_low_pc = st.scope_low,
                !.scope_high_pc = st.scope_high])]

\* get_local_variables: the callback passed to traverse_die
locals_visit(b, call, st, die, depth) ==
    LET tag == get_die_tag(b, die)
        low == get_die_unsigned(b, die, "low_pc", 0)
    IN
    IF tag = "subprogram"
    THEN [st EXCEPT !.current_func = get_die_offset(die),
                    !.scope_low = low,
                    !.scope_high = get_high_pc(b, die, low)]
    ELSE IF tag = "lexical_block"
    THEN [st EXCEPT !.scope_low = low,
                    !.scope_high = get_high_pc(b, die, low)]
    ELSE IF tag # "variable" THEN st
    ELSE IF locals_at_cu_level(depth) THEN st
    ELSE IF call.func_filter >= 0 /\ st.current_func # call.func_filter THEN st
    ELSE [st EXCEPT !.out = Append(@,
            [LocalVarInfo EXCEPT
                !.offset = get_die_offset(die),
                !.func_offset = st.current_func,
                !.name = get_die_string(b, die, "name"),
                !.type = get_type_name(b, die),
                !.location = get_location_string(b, die, "location"),
                !.decl_line = get_die_signed(b, die, "decl_line", 0),
                !.scope_low_pc = st.scope_low,
                !.scope_high_pc = st.scope_high])]

\* struct ParameterInfo with its default member initialisers
ParameterInfo ==
    [offset |-> 0, func_offset |-> 0, name |-> "", type |-> "", index |-> 0,
     location |-> ""]

\* (mutant) a new function does not restart the numbering
param_index_continues(param_index) ==
    param_index

\* get_parameters, at a subprogram DIE: param_index = 0
param_index_at_function(param_index) ==
    0

\* get_parameters: the callback passed to traverse_die
parameters_visit(b, call, st, die) ==
    LET tag == get_die_tag(b, die) IN
    IF tag = "subprogram"
    THEN [st EXCEPT !.current_func = get_die_offset(die),
                    !.param_index = param_index_at_function(st.param_index)]
    ELSE IF tag # "formal_parameter" THEN st
    ELSE IF call.func_filter >= 0 /\ st.current_func # call.func_filter THEN st
    ELSE [st EXCEPT
            !.out = Append(@,
                [ParameterInfo EXCEPT
                    !.offset = get_die_offset(die),
                    !.func_offset = st.current_func,
                    !.name = get_die_string(b, die, "name"),
                    !.type = get_type_name(b, die),
                    !.index = st.param_index,
                    !.location = get_location_string(b, die, "location")]),
            !.param_index = st.param_index + 1]

\* DW_ACCESS_* codes of DW_AT_accessibility
DW_ACCESS_public == 1
DW_ACCESS_protected == 2
DW_ACCESS_private == 3

\* struct BaseClassInfo with its default member initialisers
BaseClassInfo ==
    [derived_offset |-> 0, derived_name |-> "", base_offset |-> 0,
     base_name |-> "", data_member_offset |-> 0, is_virtual |-> FALSE,
     access |-> 0]

\* get_base_classes: the callback passed to traverse_die
base_classes_visit(b, call, st, die) ==
    LET tag == get_die_tag(b, die)
        base_offset == get_die_ref(b, die, "type")
    IN
    IF tag = "structure_type" \/ tag = "class_type"
    THEN [st EXCEPT !.current_class = get_die_offset(die),
                    !.current_class_name = get_die_string(b, die, "name")]
    ELSE IF tag # "inheritance" THEN st
    ELSE [st EXCEPT !.out = Append(@,
            [BaseClassInfo EXCEPT
                !.derived_offset = st.current_class,
                !.derived_name = st.current_class_name,
                !.base_offset = base_offset,
                !.base_name = IF dwarf_offdie_b(b, base_offset)
                              THEN get_die_string(b, base_offset, "name")
                              ELSE "",
                !.data_member_offset =
                    get_die_signed(b, die, "data_member_location", 0),
                !.is_virtual = has_die_attr(b, die, "virtuality"),
                !.access = get_die_unsigned(b, die, "accessibility",
                                            DW_ACCESS_private)])]

\* the base_classes table: switch (b.access) of its cache builder
access_text(access) ==
    CASE access = 1 -> "public"
      [] access = 2 -> "protected"
      [] access = 3 -> "private"
      [] OTHER -> ""

\* the BaseClassRow the base_classes table builds from one BaseClassInfo
BaseClassRow(bc) ==
    [derived_id |-> bc.derived_offset, derived_name |-> bc.derived_name,
     base_id |-> bc.base_offset, base_name |-> bc.base_name,
     offset |-> bc.data_member_offset, is_virtual |-> bc.is_virtual,
     access |-> access_text(bc.access)]

\* the tags get_types collects
TypeTags ==
    {"base_type", "typedef", "pointer_type", "reference_type",
     "rvalue_reference_type", "const_type", "volatile_type", "array_type"}

\* get_types: the callback passed to traverse_die
types_visit(b, call, st, die) ==
    LET tag == get_die_tag(b, die) IN
    IF tag \notin TypeTags THEN st
    ELSE [st EXCEPT !.out = Append(@,
            [DieInfo EXCEPT
                !.offset = get_die_offset(die),
                !.tag = tag,
                !.name = get_die_string(b, die, "name"),
                !.byte_size = get_die_signed(b, die, "byte_size", -1)])]

\* get_structs: the tag test of its callback
struct_tag(tag) ==
    ~(tag # "structure_type" /\ tag # "class_type" /\ tag # "union_type")

\* get_structs: the callback passed to traverse_die
structs_visit(b, call, st, die) ==
    LET tag == get_die_tag(b, die) IN
    IF ~struct_tag(tag) THEN st
    ELSE [st EXCEPT !.out = Append(@,
            [DieInfo EXCEPT
                !.offset = get_die_offset(die),
                !.tag = tag,
                !.name = get_die_string(b, die, "name"),
                !.byte_size = get_die_signed(b, die, "byte_size", -1),
                !.is_declaration = get_die_flag(b, die, "declaration")])]

\* get_enums: the callback passed to traverse_die
enums_visit(b, call, st, die) ==
    LET tag == get_die_tag(b, die) IN
    IF tag # "enumeration_type" THEN st
    ELSE [st EXCEPT !.out = Append(@,
            [DieInfo EXCEPT
                !.offset = get_die_offset(die),
                !.tag = tag,
                !.name = get_die_string(b, die, "name"),
                !.byte_size = get_die_signed(b, die, "byte_size", -1)])]

\* get_struct_members: the record made from one member child
member_info(b, child) ==
    LET a == die_attr(b, child, "data_member_location") IN
    [DieInfo EXCEPT
        !.offset = get_die_offset(child),
        !.tag = get_die_tag(b, child),
        !.name = get_die_string(b, child, "name"),
        !.low_pc = IF dwarf_attr(b, child, "data_member_location")
                      /\ dwarf_formudata(a)
                   THEN a.val ELSE 0,
        !.byte_size = get_die_signed(b, child, "bit_size", 0),
        !.decl_line = get_die_signed(b, child, "bit_offset", 0)]

\* (mutant) the loop descends into the children of child first
next_in_subtree(b, child) ==
    IF dwarf_child(b, child) # 0 THEN dwarf_child(b, child)
    ELSE dwarf_siblingof_b(b, child)

\* get_struct_members, get_enum_values: the DIE the do-while loop goes to
\* after child (0 leaves the loop)
next_sibling(b, child) == dwarf_siblingof_b(b, child)

\* get_struct_members: the do-while loop over the children, from child on
RECURSIVE struct_members_from(_, _)
struct_members_from(b, child) ==
    IF child = 0 THEN <<>>
    ELSE (IF get_die_tag(b, child) = "member"
          THEN <<member_info(b, child)>> ELSE <<>>)
         \o struct_members_from(b, next_sibling(b, child))

\* DwarfSession::get_struct_members on session se
get_struct_members(b, se, struct_offset) ==
    IF ~has_libdwarf \/ ~se.is_open THEN <<>>
    ELSE IF ~dwarf_offdie_b(b, struct_offset) THEN <<>>
    ELSE struct_members_from(b, dwarf_child(b, struct_offset))

\* get_enum_values: the record made from one enumerator child
enumerator_info(b, child) ==
    [DieInfo EXCEPT
        !.offset = get_die_offset(child),
        !.tag = get_die_tag(b, child),
        !.name = get_die_string(b, child, "name"),
        !.byte_size = get_die_signed(b, child, "const_value", 0)]

\* get_enum_values: the do-while loop over the children, from child on
RECURSIVE enum_values_from(_, _)
enum_values_from(b, child) ==
    IF child = 0 THEN <<>>
    ELSE (IF get_die_tag(b, child) = "enumerator"
          THEN <<enumerator_info(b, child)>> ELSE <<>>)
         \o enum_values_from(b, next_sibling(b, child))

\* DwarfSession::get_enum_values on session se
get_enum_values(b, se, enum_offset) ==
    IF ~has_libdwarf \/ ~se.is_open THEN <<>>
    ELSE IF ~dwarf_offdie_b(b, enum_offset) THEN <<>>
    ELSE enum_values_from(b, dwarf_child(b, enum_offset))

\* the values of the DW_TAG_ constants of dwarf.h
DW_TAG(tag) ==
    CASE tag = "class_type" -> 2
      [] tag = "enumeration_type" -> 4
      [] tag = "member" -> 13
      [] tag = "compile_unit" -> 17
      [] tag = "structure_type" -> 19
      [] tag = "union_type" -> 23
      [] tag = "enumerator" -> 40
      [] tag = "subprogram" -> 46
      [] tag = "variable" -> 52
      [] OTHER -> 0

\* (mutant) every row is a struct row
struct_kind_always_struct(tag) == "struct"

\* the structs table: switch (s.tag) of its cache builder
struct_kind(tag) ==
    CASE DW_TAG(tag) = 19 -> "struct"
      [] DW_TAG(tag) = 2 -> "class"
      [] DW_TAG(tag) = 23 -> "union"
      [] OTHER -> "struct"

\* the StructRow the structs table builds from one DieInfo
StructRow(s) ==
    [id |-> s.offset, name |-> s.name, byte_size |-> s.byte_size,
     is_declaration |-> s.is_declaration, kind |-> struct_kind(s.tag)]

\* (mutant) no struct record is skipped
skip_no_struct(s) == FALSE

\* the struct_members table: the test that skips a struct record
skip_struct(s) == s.is_declaration

\* the StructMemberRow the struct_members table builds for member m of s
StructMemberRow(s, m) ==
    [id |-> m.offset, struct_id |-> s.offset, name |-> m.name,
     offset |-> m.low_pc, bit_offset |-> m.decl_line, bit_size |-> m.byte_size]

\* the EnumValueRow the enum_values table builds for enumerator v of e
EnumValueRow(e, v) ==
    [id |-> v.offset, enum_id |-> e.offset, name |-> v.name,
     value |-> v.byte_size]

\* struct CompilationUnit with its default member initialisers
CompilationUnit ==
    [offset |-> 0, name |-> "", comp_dir |-> "", producer |-> "",
     language |-> 0, low_pc |-> 0, high_pc |-> 0]

\* get_compilation_units: the body of the unit loop
units_unit(b, call, st, cu_die) ==
    LET low == get_die_unsigned(b, cu_die, "low_pc", 0) IN
    [st EXCEPT !.out = Append(@,
        [CompilationUnit EXCEPT
            !.offset = get_die_offset(cu_die),
            !.name = get_die_string(b, cu_die, "name"),
            !.comp_dir = get_die_string(b, cu_die, "comp_dir"),
            !.producer = get_die_string(b, cu_die, "producer"),
            !.language = get_die_unsigned(b, cu_die, "language", 0),
            !.low_pc = low,
            !.high_pc = get_high_pc(b, cu_die, low)])]

\* the locals an extractor declares before its loop over the units
scan_locals(call) ==
    CASE call.op = "get_variables" -> [out |-> <<>>, current_func |-> 0]
      [] call.op = "get_calls" ->
            [out |-> <<>>, current_func |-> 0, current_func_name |-> ""]
      [] call.op = "get_namespaces" -> [out |-> <<>>, parent_ns |-> 0]
      [] call.op = "get_base_classes" ->
            [out |-> <<>>, current_class |-> 0, current_class_name |-> ""]
      [] call.op = "get_local_variables" ->
            [out |-> <<>>, current_func |-> 0, scope_low |-> 0, scope_high |-> 0]
      [] call.op = "get_parameters" ->
            [out |-> <<>>, current_func |-> 0, param_index |-> 0]
      [] OTHER -> [out |-> <<>>]

\* the locals an extractor declares inside the loop, once per unit
unit_locals(call, st) ==
    CASE call.op = "get_calls" ->
            [st EXCEPT !.current_func = 0, !.current_func_name = ""]
      [] call.op = "get_namespaces" -> [st EXCEPT !.parent_ns = 0]
      [] call.op = "get_base_classes" ->
            [st EXCEPT !.current_class = 0, !.current_class_name = ""]
      [] call.op = "get_local_variables" ->
            [st EXCEPT !.current_func = 0, !.scope_low = 0, !.scope_high = 0]
      [] call.op = "get_parameters" ->
            [st EXCEPT !.current_func = 0, !.param_index = 0]
      [] OTHER -> st

\* true for the extractors that take a cu_filter
has_cu_filter(call) ==
    call.op \in {"get_variables", "get_functions", "get_line_info",
                 "get_types", "get_structs", "get_enums"}

\* the callback of the extractor, applied to one DIE
visit(b, call, st, v) ==
    CASE call.op = "get_variables" -> variables_visit(b, call, st, v.die)
      [] call.op = "get_functions" -> functions_visit(b, call, st, v.die)
      [] call.op = "get_calls" -> calls_visit(b, call, st, v.die)
      [] call.op = "get_namespaces" -> namespaces_visit(b, call, st, v.die)
      [] call.op = "get_base_classes" -> base_classes_visit(b, call, st, v.die)
      [] call.op = "get_local_variables" ->
            locals_visit(b, call, st, v.die, v.depth)
      [] call.op = "get_parameters" -> parameters_visit(b, call, st, v.die)
      [] call.op = "get_types" -> types_visit(b, call, st, v.die)
      [] call.op = "get_structs" -> structs_visit(b, call, st, v.die)
      [] call.op = "get_enums" -> enums_visit(b, call, st, v.die)
      [] OTHER -> st

RECURSIVE fold_visits(_, _, _, _)
fold_visits(b, call, st, visits) ==
    IF visits = <<>> THEN st
    ELSE fold_visits(b, call, visit(b, call, st, Head(visits)), Tail(visits))

\* the body of the loop for one unit whose root DIE was obtained
scan_unit(b, call, st, cu_die) ==
    IF call.op = "get_line_info" THEN lines_unit(b, call, st, cu_die)
    ELSE IF call.op = "get_compilation_units" THEN units_unit(b, call, st, cu_die)
    ELSE fold_visits(b, call, unit_locals(call, st), traverse_die(b, cu_die, 0))

\* (mutant) the cu_filter is not looked at
cu_filter_ignored(call, cu_offset) == FALSE

\* the test that skips the unit whose root DIE sits at cu_offset
cu_filter_skips(call, cu_offset) ==
    /\ has_cu_filter(call)
    /\ call.cu_filter >= 0
    /\ cu_offset # call.cu_filter

\* while (dwarf_next_cu_header_d(...) == DW_DLV_OK) over the units left
RECURSIVE scan(_, _, _, _)
scan(b, call, st, units) ==
    IF units = <<>> THEN st
    ELSE LET cu_die == Head(units) IN
         IF cu_die \in b.badUnits
         THEN scan(b, call, st, Tail(units))
         ELSE IF cu_filter_skips(call, get_die_offset(cu_die))
         THEN scan(b, call, st, Tail(units))
         ELSE scan(b, call, scan_unit(b, call, st, cu_die), Tail(units))

\* the unit headers dwarf_next_cu_header_d still delivers to handle h
units_left(b, h) == SubSeq(Units(b), cursor[h] + 1, Len(Units(b)))

\* (mutant) the extractor does not look at is_open_
extract_unguarded(s, call) ==
    IF ~has_libdwarf THEN <<>>
    ELSE scan(bin, call, scan_locals(call), Units(bin)).out

\* what an extractor returns on session s
extract(s, call) ==
    IF ~has_libdwarf \/ ~sessions[s].is_open THEN <<>>
    ELSE scan(bin, call, scan_locals(call), units_left(bin, sessions[s].dbg)).out

\* (mutant) the cursor stays behind the last unit
cursor_left_at_end(s) ==
    IF ~has_libdwarf \/ ~sessions[s].is_open THEN cursor
    ELSE [cursor EXCEPT ![sessions[s].dbg] = Len(Units(bin))]

\* the cursor once the loop has run into DW_DLV_NO_ENTRY
cursor_after(s) ==
    IF ~has_libdwarf \/ ~sessions[s].is_open THEN cursor
    ELSE [cursor EXCEPT ![sessions[s].dbg] = 0]

Extract(s, call) ==
    /\ sessions[s].alive
    /\ last_call' = call
    /\ result' = extract(s, call)
    /\ cursor' = cursor_after(s)
    /\ UNCHANGED <<http, has_libdwarf, sessions, liveHandles, openFds, misuse, bin, tn>>

GetCompilationUnits(s) ==
    Extract(s, [op |-> "get_compilation_units", s |-> s])

GetVariables(s, cu_filter, func_filter) ==
    Extract(s, [op |-> "get_variables", s |-> s,
                cu_filter |-> cu_filter, func_filter |-> func_filter])

GetFunctions(s, cu_filter) ==
    Extract(s, [op |-> "get_functions", s |-> s, cu_filter |-> cu_filter])

GetCalls(s) ==
    Extract(s, [op |-> "get_calls", s |-> s])

GetLineInfo(s, cu_filter) ==
    Extract(s, [op |-> "get_line_info", s |-> s, cu_filter |-> cu_filter])

\* get_type_name called on a DIE, run up to the first test of its loop
GetTypeName(die) ==
    /\ tn.pc = "idle"
    /\ LET t == type_start(bin, die) IN
         /\ last_call' = [op |-> "get_type_name", die |-> die,
                          returned |-> t.pc = "done"]
         /\ result' = IF t.pc = "done" THEN t.ret ELSE ""
         /\ tn' = IF t.pc = "done" THEN Idle ELSE t
    /\ UNCHANGED <<http, has_libdwarf, sessions, liveHandles, openFds, misuse, bin, cursor>>

\* get_type_name: the loop test and one pass through the body
TypeNameLoop ==
    /\ tn.pc = "loop"
    /\ tn.iter < MaxIter
    /\ LET t == type_loop(bin, tn) IN
         /\ last_call' = [last_call EXCEPT !.returned = t.pc = "done"]
         /\ result' = IF t.pc = "done" THEN t.ret ELSE ""
         /\ tn' = IF t.pc = "done" THEN Idle ELSE t
    /\ UNCHANGED <<http, has_libdwarf, sessions, liveHandles, openFds, misuse, bin, cursor>>

GetNamespaces(s) ==
    Extract(s, [op |-> "get_namespaces", s |-> s])

GetLocalVariables(s, func_filter) ==
    Extract(s, [op |-> "get_local_variables", s |-> s, func_filter |-> func_filter])

GetParameters(s, func_filter) ==
    Extract(s, [op |-> "get_parameters", s |-> s, func_filter |-> func_filter])

GetBaseClasses(s) ==
    Extract(s, [op |-> "get_base_classes", s |-> s])

GetTypes(s, cu_filter) ==
    Extract(s, [op |-> "get_types", s |-> s, cu_filter |-> cu_filter])

GetStructs(s, cu_filter) ==
    Extract(s, [op |-> "get_structs", s |-> s, cu_filter |-> cu_filter])

GetEnums(s, cu_filter) ==
    Extract(s, [op |-> "get_enums", s |-> s, cu_filter |-> cu_filter])

\* get_struct_members and get_enum_values use dwarf_offdie_b, not the unit
\* cursor
GetStructMembers(s, struct_offset) ==
    /\ sessions[s].alive
    /\ last_call' = [op |-> "get_struct_members", s |-> s,
                     struct_offset |-> struct_offset]
    /\ result' = get_struct_members(bin, sessions[s], struct_offset)
    /\ UNCHANGED <<http, has_libdwarf, sessions, liveHandles, openFds, misuse, bin,
                   cursor, tn>>

GetEnumValues(s, enum_offset) ==
    /\ sessions[s].alive
    /\ last_call' = [op |-> "get_enum_values", s |-> s,
                     enum_offset |-> enum_offset]
    /\ result' = get_enum_values(bin, sessions[s], enum_offset)
    /\ UNCHANGED <<http, has_libdwarf, sessions, liveHandles, openFds, misuse, bin,
                   cursor, tn>>

\* the cache builder of the structs table
StructsTable(s) ==
    /\ sessions[s].alive
    /\ LET structs == extract(s, [op |-> "get_structs", s |-> s, cu_filter |-> -1])
       IN result' = [i \in 1..Len(structs) |-> StructRow(structs[i])]
    /\ last_call' = [op |-> "structs_table", s |-> s]
    /\ cursor' = cursor_after(s)
    /\ UNCHANGED <<http, has_libdwarf, sessions, liveHandles, openFds, misuse, bin, tn>>

\* the rows the struct_members table builds for the struct record st
struct_member_rows(b, se, st) ==
    IF skip_struct(st) THEN <<>>
    ELSE LET members == get_struct_members(b, se, st.offset)
         IN [j \in 1..Len(members) |-> StructMemberRow(st, members[j])]

\* the cache builder of the struct_members table
StructMembersTable(s) ==
    /\ sessions[s].alive
    /\ LET structs == extract(s, [op |-> "get_structs", s |-> s, cu_filter |-> -1])
       IN result' = Flatten([i \in 1..Len(structs) |->
                               struct_member_rows(bin, sessions[s], structs[i])])
    /\ last_call' = [op |-> "struct_members_table", s |-> s]
    /\ cursor' = cursor_after(s)
    /\ UNCHANGED <<http, has_libdwarf, sessions, liveHandles, openFds, misuse, bin, tn>>

\* the rows the enum_values table builds for the enum record e
enum_value_rows(b, se, e) ==
    LET values == get_enum_values(b, se, e.offset)
    IN [j \in 1..Len(values) |-> EnumValueRow(e, values[j])]

\* the cache builder of the enum_values table
EnumValuesTable(s) ==
    /\ sessions[s].alive
    /\ LET enums == extract(s, [op |-> "get_enums", s |-> s, cu_filter |-> -1])
       IN result' = Flatten([i \in 1..Len(enums) |->
                               enum_value_rows(bin, sessions[s], enums[i])])
    /\ last_call' = [op |-> "enum_values_table", s |-> s]
    /\ cursor' = cursor_after(s)
    /\ UNCHANGED <<http, has_libdwarf, sessions, liveHandles, openFds, misuse, bin, tn>>

\* the cache builder of the base_classes table
BaseClassesTable(s) ==
    /\ sessions[s].alive
    /\ LET bases == extract(s, [op |-> "get_base_classes", s |-> s]) IN
         result' = [i \in 1..Len(bases) |-> BaseClassRow(bases[i])]
    /\ last_call' = [op |-> "base_classes_table", s |-> s]
    /\ cursor' = cursor_after(s)
    /\ UNCHANGED <<http, has_libdwarf, sessions, liveHandles, openFds, misuse, bin, tn>>

\* get_location_string called on an attribute of a DIE
GetLocationString(die, attr) ==
    /\ last_call' = [op |-> "get_location_string", die |-> die, attr |-> attr]
    /\ result' = get_location_string(bin, die, attr)
    /\ UNCHANGED <<http, has_libdwarf, sessions, liveHandles, openFds, misuse, bin,
                   cursor, tn>>

\* run_http_mode up to the test of actual_port: the server is constructed,
\* published in g_http_server and started; a failed start returns 1, which
\* destroys the server
HttpStart(ok) ==
    /\ http.pc = "idle"
    /\ http' = IF ok
               THEN [http EXCEPT !.pc = "install_int", !.server = TRUE,
                                 !.g_http_server = "server", !.impl = "live",
                                 !.running = TRUE]
               ELSE [http EXCEPT !.pc = "done", !.server = FALSE,
                                 !.g_http_server = "server", !.impl = "null",
                                 !.released = TRUE]
    /\ UNCHANGED <<has_libdwarf, sessions, liveHandles, openFds, misuse, bin,
                   cursor, last_call, result, tn>>

\* std::signal(SIGINT, http_signal_handler)
HttpInstallInt ==
    /\ http.pc = "install_int"
    /\ http' = [http EXCEPT !.pc = "install_term", !.handlers = @ \cup {"SIGINT"}]
    /\ UNCHANGED <<has_libdwarf, sessions, liveHandles, openFds, misuse, bin,
                   cursor, last_call, result, tn>>

\* std::signal(SIGTERM, http_signal_handler), then the banner is printed
HttpInstallTerm ==
    /\ http.pc = "install_term"
    /\ http' = [http EXCEPT !.pc = "is_running_test", !.handlers = @ \cup {"SIGTERM"}]
    /\ UNCHANGED <<has_libdwarf, sessions, liveHandles, openFds, misuse, bin,
                   cursor, last_call, result, tn>>

\* while (server.is_running()): the null test of impl_
HttpIsRunningTest ==
    /\ http.pc = "is_running_test"
    /\ http' = is_running_test(http)
    /\ UNCHANGED <<has_libdwarf, sessions, liveHandles, openFds, misuse, bin,
                   cursor, last_call, result, tn>>

\* while (server.is_running()): the call on the implementation
HttpIsRunningCall ==
    /\ http.pc = "is_running_call"
    /\ http' = is_running_call(http)
    /\ UNCHANGED <<has_libdwarf, sessions, liveHandles, openFds, misuse, bin,
                   cursor, last_call, result, tn>>

\* std::this_thread::sleep_for(100 ms)
HttpSleep ==
    /\ http.pc = "sleep"
    /\ http.polls < MaxPolls
    /\ http' = [http EXCEPT !.pc = "is_running_test", !.polls = @ + 1]
    /\ UNCHANGED <<has_libdwarf, sessions, liveHandles, openFds, misuse, bin,
                   cursor, last_call, result, tn>>

\* std::signal(SIGINT, old_handler)
HttpRestoreInt ==
    /\ http.pc = "restore_int"
    /\ http' = [http EXCEPT !.pc = "restore_term", !.handlers = @ \ {"SIGINT"}]
    /\ UNCHANGED <<has_libdwarf, sessions, liveHandles, openFds, misuse, bin,
                   cursor, last_call, result, tn>>

\* std::signal(SIGTERM, old_term_handler)
HttpRestoreTerm ==
    /\ http.pc = "restore_term"
    /\ http' = [http EXCEPT !.pc = "clear", !.handlers = @ \ {"SIGTERM"}]
    /\ UNCHANGED <<has_libdwarf, sessions, liveHandles, openFds, misuse, bin,
                   cursor, last_call, result, tn>>

\* g_http_server = nullptr; return 0, which destroys the server:
\* ~DwarfsqlHTTPServer() { stop(); }
HttpReturn ==
    /\ http.pc = "clear"
    /\ http' = [stop(http) EXCEPT !.pc = "done", !.g_http_server = "null",
                                  !.server = FALSE]
    /\ UNCHANGED <<has_libdwarf, sessions, liveHandles, openFds, misuse, bin,
                   cursor, last_call, result, tn>>

\* a signal arrives and its handler runs to its end
HttpSignal(sig) ==
    /\ http.pc \notin {"crashed", "done"}
    /\ signal_deliverable(http, sig)
    /\ http.signals < MaxSignals
    /\ http' = [http_signal_handler(http) EXCEPT !.signals = @ + 1]
    /\ UNCHANGED <<has_libdwarf, sessions, liveHandles, openFds, misuse, bin,
                   cursor, last_call, result, tn>>

\* a client posts /shutdown and the implementation stops serving
HttpShutdown ==
    /\ http.pc \notin {"crashed", "done"}
    /\ http.impl = "live" /\ http.running
    /\ http' = [http EXCEPT !.running = FALSE]
    /\ UNCHANGED <<has_libdwarf, sessions, liveHandles, openFds, misuse, bin,
                   cursor, last_call, result, tn>>

\* get_high_pc called on a DIE
GetHighPc(die, low_pc) ==
    /\ last_call' = [op |-> "get_high_pc", die |-> die, low_pc |-> low_pc]
    /\ result' = get_high_pc(bin, die, low_pc)
    /\ UNCHANGED <<http, has_libdwarf, sessions, liveHandles, openFds, misuse, bin,
                   cursor, tn>>

\* the FunctionRow the functions table builds from one DieInfo; is_inline is
\* a member without initialiser that the builder never assigns
FunctionRow(f, is_inline) ==
    [id |-> f.offset, cu_id |-> 0, name |-> f.name,
     linkage_name |-> f.linkage_name, low_pc |-> f.low_pc,
     high_pc |-> f.high_pc, is_external |-> f.is_external,
     is_declaration |-> f.is_declaration, is_inline |-> is_inline,
     line |-> f.decl_line]

\* the cache builder of the functions table
FunctionsTable(s) ==
    /\ sessions[s].alive
    /\ LET funcs == extract(s, [op |-> "get_functions", s |-> s, cu_filter |-> -1])
       IN \E indeterminate \in [1..Len(funcs) -> BOOLEAN] :
            result' = [i \in 1..Len(funcs) |-> FunctionRow(funcs[i], indeterminate[i])]
    /\ last_call' = [op |-> "functions_table", s |-> s]
    /\ cursor' = cursor_after(s)
    /\ UNCHANGED <<http, has_libdwarf, sessions, liveHandles, openFds, misuse, bin, tn>>

\* traverse_die called on a DIE with a callback that records its arguments
Traverse(die, depth) ==
    /\ last_call' = [op |-> "traverse_die", die |-> die, depth |-> depth]
    /\ result' = traverse_die(bin, die, depth)
    /\ UNCHANGED <<http, has_libdwarf, sessions, liveHandles, openFds, misuse, bin,
                   cursor, tn>>

(***************************************************************************)
(* Families of binaries and the specifications over them.                  *)
(***************************************************************************)
RECURSIVE IsAncestorOrSelf(_, _, _)
IsAncestorOrSelf(parent, a, d) ==
    \/ a = d
    \/ (parent[d] # 0 /\ IsAncestorOrSelf(parent, a, parent[d]))

\* the forests of n DIEs laid out as in .debug_info: offsets in pre-order,
\* so a DIE's parent is the DIE before it or one of that DIE's ancestors
Shapes(n) ==
    {p \in [1..n -> 0..(n - 1)] :
        /\ p[1] = 0
        /\ \A i \in 2..n : p[i] = 0 \/ IsAncestorOrSelf(p, p[i], i - 1)}

\* the binary of n attribute-less DIEs shaped by p, tagged by t below the
\* unit roots, every unit root a compile_unit DIE
TreeBin(n, p, t) ==
    [dies |-> [i \in 1..n |->
                 Die(IF p[i] = 0 THEN "compile_unit" ELSE t[i], p[i], NoAttrs)],
     badUnits |-> {},
     lines |-> [i \in 1..n |-> NoLines]]

\* bin is one of the binaries of at most MaxDie DIEs with tags from tags
TreeBins(tags) ==
    \E n \in 1..MaxDie : \E p \in Shapes(n) :
        \E t \in [{i \in 1..n : p[i] # 0} -> tags] :
            bin = TreeBin(n, p, t)

\* a session that open("a.out") has just opened, beside unconstructed ones
OpenedSession ==
    [alive |-> TRUE, dbg |-> 1, fd |-> 3, is_open |-> TRUE,
     path |-> "a.out", last_error |-> ""]

InitOpened ==
    /\ has_libdwarf = TRUE
    /\ sessions = [s \in SessionIds |-> IF s = 1 THEN OpenedSession ELSE DefaultSession]
    /\ liveHandles = {1}
    /\ openFds = {3}
    /\ misuse = FALSE
    /\ cursor = NoCursor
    /\ last_call = [op |-> "none"]
    /\ result = "void"
    /\ tn = Idle
    /\ http = NoHttp

\* the arguments the callers pass: -1 for no filter, else an offset
CuFilters == {-1} \cup Range(Units(bin))
FuncFilters == {-1, 0} \cup Offsets(bin)

InitTree ==
    InitOpened /\ TreeBins({"subprogram", "variable", "formal_parameter"})

NextTree ==
    \/ \E s \in SessionIds, c \in CuFilters, f \in FuncFilters : GetVariables(s, c, f)
    \/ \E d \in Offsets(bin), depth \in {0, 1} : Traverse(d, depth)

SpecTree == InitTree /\ [][NextTree]_vars

\* the values low_pc, high_pc and the low_pc argument range over
AddrVals == {0, 64, 4096, WordMax}

\* a unit holding one subprogram DIE, over the ways its range, declaration and
\* inline attributes can be encoded
FuncBins ==
    {[dies |-> <<Die("compile_unit", 0, NoAttrs),
                 Die("subprogram", 1,
                     [low_pc |-> lo, high_pc |-> hi, declaration |-> decl,
                      inline |-> inl])>>,
      badUnits |-> {},
      lines |-> <<NoLines, NoLines>>]
     : lo \in {NoAttr} \cup {[form |-> "addr", val |-> v] : v \in AddrVals},
       hi \in {NoAttr, [form |-> "addrx", val |-> 1], [form |-> "sdata", val |-> -1]}
              \cup {[form |-> f, val |-> v] : f \in {"addr", "data"}, v \in AddrVals},
       decl \in {NoAttr} \cup {[form |-> "flag", val |-> v] : v \in BOOLEAN},
       inl \in {NoAttr, [form |-> "sdata", val |-> -1]}
               \cup {[form |-> "data", val |-> v] : v \in 0..3}}

InitFuncs == InitOpened /\ bin \in FuncBins

NextFuncs ==
    \/ \E s \in SessionIds, c \in CuFilters : GetFunctions(s, c)
    \/ \E d \in Offsets(bin), low \in AddrVals : GetHighPc(d, low)
    \/ \E s \in SessionIds : FunctionsTable(s)

SpecFuncs == InitFuncs /\ [][NextFuncs]_vars

\* an offset at which dwarf_offdie_b finds no DIE
Dangling == MaxDie + MaxChain + 2

\* DW_AT_name of the subprogram DIE at offset i
FuncName(i) == "f" \o ToString(i)

\* the ways the two origin attributes of a call site can be encoded
OriginAttrs ==
    {[call_origin |-> co, abstract_origin |-> ao]
     : co \in {NoAttr} \cup {[form |-> "ref", val |-> v] : v \in {0, 2, Dangling}},
       ao \in {NoAttr} \cup {[form |-> "ref", val |-> v] : v \in {2, Dangling}}}

\* the binary shaped by p of subprogram and call-site DIEs tagged by t, in
\* which the call site at offset k carries the origin attributes oa
CallBin(n, p, t, k, oa) ==
    [dies |-> [i \in 1..n |->
                 IF p[i] = 0 THEN Die("compile_unit", 0, NoAttrs)
                 ELSE IF i = k THEN Die(t[i], p[i], oa)
                 ELSE IF t[i] = "subprogram"
                      THEN Die(t[i], p[i],
                               [name |-> [form |-> "string", val |-> FuncName(i)]])
                      ELSE Die(t[i], p[i], NoAttrs)],
     badUnits |-> {},
     lines |-> [i \in 1..n |-> NoLines]]

\* bin is one of these binaries of at most MaxDie DIEs
CallBins ==
    \E n \in 2..MaxDie : \E p \in Shapes(n) :
        \E k \in {i \in 2..n : p[i] # 0} :
            \E t \in {u \in [1..n -> {"subprogram", "call_site", "GNU_call_site"}] :
                        /\ u[k] # "subprogram"
                        /\ \A i \in 1..n :
                              /\ p[i] = 0 => u[i] = "subprogram"
                              /\ (i # k /\ p[i] # 0) => u[i] # "GNU_call_site"} :
                \E oa \in OriginAttrs :
                    bin = CallBin(n, p, t, k, oa)

InitCalls == InitOpened /\ CallBins

NextCalls ==
    \E s \in SessionIds : GetCalls(s)

SpecCalls == InitCalls /\ [][NextCalls]_vars

\* the line table of the unit at offset u when it decodes: one row
UnitLines(u) ==
    [res |-> "ok",
     rows |-> <<[address |-> u, file |-> "u" \o ToString(u), line |-> u,
                 column |-> 0, is_stmt |-> TRUE, basic_block |-> FALSE,
                 end_sequence |-> FALSE]>>]

\* bin is a binary of at most MaxDie DIEs in which the root DIE of the units
\* in bad cannot be obtained and the line table of unit u behaves as lt[u]
FailBins ==
    \E n \in 1..MaxDie : \E p \in Shapes(n) :
        \E t \in {u \in [1..n -> {"subprogram", "variable", "call_site"}] :
                     \A i \in 1..n : p[i] = 0 => u[i] = "subprogram"} :
            \E bad \in SUBSET {i \in 1..n : p[i] = 0} :
                \E lt \in [1..n -> {"ok", "srclines_failed", "lines_failed"}] :
                    /\ \A i \in 1..n : p[i] # 0 => lt[i] = "srclines_failed"
                    /\ bin = [TreeBin(n, p, t) EXCEPT
                                !.badUnits = bad,
                                !.lines = [i \in 1..n |->
                                             IF lt[i] = "ok" THEN UnitLines(i)
                                             ELSE [res |-> lt[i], rows |-> <<>>]]]

\* func_filter arguments: no filter or the offset of a function
FunctionFilters ==
    {-1} \cup {d \in Offsets(bin) : bin.dies[d].tag = "subprogram"}

InitFail == InitOpened /\ FailBins

NextFail ==
    \/ \E s \in SessionIds, c \in CuFilters, f \in FunctionFilters : GetVariables(s, c, f)
    \/ \E s \in SessionIds, c \in CuFilters : GetFunctions(s, c)
    \/ \E s \in SessionIds, c \in CuFilters : GetLineInfo(s, c)
    \/ \E s \in SessionIds : GetCalls(s)

SpecFail == InitFail /\ [][NextFail]_vars

\* the tags of the DIEs in the chains of type references
ChainTags ==
    {"variable", "pointer_type", "const_type", "reference_type", "base_type",
     "structure_type"}

\* DW_AT_name of a chain DIE: variables and base types carry one
ChainName(tag) ==
    CASE tag = "variable" -> [form |-> "string", val |-> "v"]
      [] tag = "base_type" -> [form |-> "string", val |-> "int"]
      [] OTHER -> NoAttr

\* a unit whose DIEs 2..n+1 form a chain: the type reference of each is the
\* DIE after it, that of the last one is absent, refers to an offset without
\* a DIE, or refers back to DIE 2
ChainBin(n, t, last) ==
    [dies |-> [i \in 1..(n + 1) |->
                 IF i = 1 THEN Die("compile_unit", 0, NoAttrs)
                 ELSE Die(t[i], 1,
                          [name |-> ChainName(t[i]),
                           type |-> IF i <= n THEN [form |-> "ref", val |-> i + 1]
                                    ELSE last])],
     badUnits |-> {},
     lines |-> [i \in 1..(n + 1) |-> NoLines]]

ChainBins ==
    \E n \in 1..MaxChain :
        \E t \in {u \in [1..(n + 1) -> ChainTags] : u[1] = "variable"} :
            \E last \in {NoAttr, [form |-> "ref", val |-> Dangling],
                         [form |-> "ref", val |-> 2]} :
                bin = ChainBin(n, t, last)

InitType == InitOpened /\ ChainBins

NextType ==
    \/ \E d \in Offsets(bin) : GetTypeName(d)
    \/ TypeNameLoop

SpecType == InitType /\ [][NextType]_vars

\* chains of pointers, named base types and unnamed structs whose last type
\* reference is absent, refers to an offset without a DIE, or refers back
\* to DIE 2 or to DIE 3
LoopBins ==
    \E n \in 1..MaxChain :
        \E t \in [1..(n + 1) -> {"pointer_type", "base_type", "structure_type"}] :
            \E last \in {NoAttr} \cup {[form |-> "ref", val |-> v] : v \in {Dangling, 2, 3}} :
                bin = ChainBin(n, t, last)

InitLoop == InitOpened /\ LoopBins

\* the loop of a call that has started keeps running
SpecLoop == InitLoop /\ [][NextType]_vars /\ WF_vars(TypeNameLoop)

\* a variable whose type reference leads through DIEs with modifier tags or
\* named base types; the last DIE has no type reference
ModBins ==
    \E n \in 2..MaxChain :
        \E t \in {u \in [1..(n + 1) -> ModifierTags \cup {"variable", "base_type"}] :
                     /\ u[1] = "variable" /\ u[2] = "variable"
                     /\ \A i \in 3..(n + 1) : u[i] # "variable"} :
            bin = ChainBin(n, t, NoAttr)

InitMods == InitOpened /\ ModBins

SpecMods == InitMods /\ [][NextType]_vars

InitNs == InitOpened /\ TreeBins({"namespace", "variable"})

NextNs ==
    \E s \in SessionIds : GetNamespaces(s)

SpecNs == InitNs /\ [][NextNs]_vars

\* bin is a binary of at most MaxDie attribute-less DIEs in which a unit root
\* is a compile_unit or a variable DIE and the DIEs below carry the tags
\* get_local_variables tells apart
LocalBins ==
    \E n \in 1..MaxDie : \E p \in Shapes(n) :
        \E t \in {u \in [1..n -> {"compile_unit", "subprogram", "lexical_block",
                                 "variable", "namespace"}] :
                     \A i \in 1..n :
                        IF p[i] = 0 THEN u[i] \in {"compile_unit", "variable"}
                        ELSE u[i] # "compile_unit"} :
            bin = [dies |-> [i \in 1..n |-> Die(t[i], p[i], NoAttrs)],
                   badUnits |-> {},
                   lines |-> [i \in 1..n |-> NoLines]]

InitLocals == InitOpened /\ LocalBins

\* func_filter arguments: no filter, 0, or the offset of a function
ScopeFilters == {0} \cup FunctionFilters

NextLocals ==
    \E s \in SessionIds, f \in ScopeFilters : GetLocalVariables(s, f)

SpecLocals == InitLocals /\ [][NextLocals]_vars

\* the range attributes of the function or block at offset i: its start is an
\* address of its own; its end is an address, an offset from the start, or
\* both attributes are absent
ScopeAttrs(i, enc) ==
    CASE enc = "addr" -> [low_pc |-> [form |-> "addr", val |-> 16 * i],
                          high_pc |-> [form |-> "addr", val |-> 16 * i + 8]]
      [] enc = "data" -> [low_pc |-> [form |-> "addr", val |-> 16 * i],
                          high_pc |-> [form |-> "data", val |-> 8]]
      [] OTHER -> NoAttrs

\* bin is a binary of at most MaxDie DIEs: functions, blocks and variables
\* below compile_unit roots, the ranges of all functions and blocks encoded
\* the same way
ScopeBins ==
    \E n \in 1..MaxDie : \E p \in Shapes(n) :
        \E t \in [1..n -> {"subprogram", "lexical_block", "variable"}] :
            \E enc \in {"addr", "data", "none"} :
                bin = [dies |-> [i \in 1..n |->
                                   IF p[i] = 0 THEN Die("compile_unit", 0, NoAttrs)
                                   ELSE IF t[i] = "variable"
                                   THEN Die("variable", p[i], NoAttrs)
                                   ELSE Die(t[i], p[i], ScopeAttrs(i, enc))],
                       badUnits |-> {},
                       lines |-> [i \in 1..n |-> NoLines]]

InitScopes == InitOpened /\ ScopeBins

SpecScopes == InitScopes /\ [][NextLocals]_vars

\* the byte strings of location expressions: n bytes that start at first and
\* go up by step
ByteString(n, first, step) == [i \in 1..n |-> (first + (i - 1) * step) % 256]

ByteStrings ==
    {ByteString(n, first, step) :
        n \in 0..MaxBytes, first \in {0, 9, 171, 255}, step \in {0, 1, 17}}

\* the ways DW_AT_location can be encoded: absent, an expression or block
\* whose bytes the provider hands out or not, a location list, another form
LocationAttrs ==
    {NoAttr, [form |-> "sec_offset", val |-> 64], [form |-> "data", val |-> 64],
     [form |-> "string", val |-> "x"]}
    \cup {[form |-> f, val |-> [res |-> r, bytes |-> bs]] :
            f \in {"exprloc", "block1", "block2", "block4", "block"},
            r \in {"ok", "error"}, bs \in ByteStrings}

\* a unit holding one variable DIE with a location attribute
LocationBins ==
    \E at \in LocationAttrs :
        bin = [dies |-> <<Die("compile_unit", 0, NoAttrs),
                          Die("variable", 1, [location |-> at])>>,
               badUnits |-> {},
               lines |-> <<NoLines, NoLines>>]

InitLocs == InitOpened /\ LocationBins

NextLocs ==
    \E d \in Offsets(bin), a \in {"location", "data_member_location"} :
        GetLocationString(d, a)

SpecLocs == InitLocs /\ [][NextLocs]_vars

InitParams ==
    InitOpened /\ TreeBins({"subprogram", "formal_parameter", "lexical_block"})

NextParams ==
    \E s \in SessionIds, f \in FuncFilters : GetParameters(s, f)

SpecParams == InitParams /\ [][NextParams]_vars

\* the ways the attributes of an inheritance DIE can be encoded
InheritanceAttrs ==
    {[accessibility |-> acc, type |-> ty, virtuality |-> vi]
     : acc \in {NoAttr, [form |-> "string", val |-> 0]}
               \cup {[form |-> "data", val |-> v] : v \in 0..4 \cup {WordMax}},
       ty \in {NoAttr} \cup {[form |-> "ref", val |-> v] : v \in {2, Dangling}},
       vi \in {NoAttr, [form |-> "data", val |-> 1]}}

\* the binary shaped by p of class, struct and inheritance DIEs tagged by t,
\* in which the inheritance DIE at offset k carries the attributes ia
BaseBin(n, p, t, k, ia) ==
    [dies |-> [i \in 1..n |->
                 IF p[i] = 0 THEN Die("compile_unit", 0, NoAttrs)
                 ELSE IF i = k THEN Die("inheritance", p[i], ia)
                 ELSE IF t[i] = "inheritance" THEN Die(t[i], p[i], NoAttrs)
                 ELSE Die(t[i], p[i],
                          [name |-> [form |-> "string", val |-> "C" \o ToString(i)]])],
     badUnits |-> {},
     lines |-> [i \in 1..n |-> NoLines]]

\* bin is one of these binaries of at most MaxDie DIEs
BaseBins ==
    \E n \in 2..MaxDie : \E p \in Shapes(n) :
        \E k \in {i \in 2..n : p[i] # 0} :
            \E t \in [{i \in 1..n : p[i] # 0 /\ i # k}
                      -> {"class_type", "structure_type", "inheritance"}] :
                \E ia \in InheritanceAttrs :
                    bin = BaseBin(n, p, t, k, ia)

InitBases == InitOpened /\ BaseBins

NextBases ==
    \/ \E s \in SessionIds : GetBaseClasses(s)
    \/ \E s \in SessionIds : BaseClassesTable(s)

SpecBases == InitBases /\ [][NextBases]_vars

\* structs, classes, unions and their members in every arrangement
InitStructs ==
    InitOpened /\ TreeBins({"structure_type", "class_type", "union_type", "member"})

NextStructs ==
    \/ \E s \in SessionIds, c \in CuFilters : GetStructs(s, c)
    \/ \E s \in SessionIds : StructsTable(s)

SpecStructs == InitStructs /\ [][NextStructs]_vars

\* the ways the DW_AT_declaration attribute of a struct DIE can be encoded
DeclarationAttrs ==
    {[form |-> "flag", val |-> TRUE], [form |-> "flag", val |-> FALSE],
     [form |-> "data", val |-> 1]}

\* the binary shaped by p of struct, union and member DIEs tagged by t, in
\* which the DIE at offset k carries the declaration attribute da
DeclBin(n, p, t, k, da) ==
    [dies |-> [i \in 1..n |->
                 IF p[i] = 0 THEN Die("compile_unit", 0, NoAttrs)
                 ELSE Die(t[i], p[i],
                          [name |-> [form |-> "string", val |-> "S" \o ToString(i)],
                           declaration |-> IF i = k THEN da ELSE NoAttr])],
     badUnits |-> {},
     lines |-> [i \in 1..n |-> NoLines]]

\* bin is one of these binaries of at most MaxDie DIEs
DeclBins ==
    \E n \in 2..MaxDie : \E p \in Shapes(n) :
        \E t \in [{i \in 1..n : p[i] # 0}
                  -> {"structure_type", "union_type", "member"}] :
            \E k \in {i \in 2..n : p[i] # 0 /\ t[i] # "member"} :
                \E da \in DeclarationAttrs :
                    bin = DeclBin(n, p, t, k, da)

InitDecls == InitOpened /\ DeclBins

NextDecls ==
    \/ \E s \in SessionIds : GetStructs(s, -1)
    \/ \E s \in SessionIds : StructMembersTable(s)

SpecDecls == InitDecls /\ [][NextDecls]_vars

\* the kinds of DIE below the unit roots of a MemberBin: structs, members,
\* enums and the enumerators OK = 0 and FAIL = 1
MemberKinds == {"structure_type", "member", "enumeration_type", "OK", "FAIL"}

\* the binary shaped by p whose DIEs below the unit roots are of the kinds t
MemberBin(n, p, t) ==
    [dies |-> [i \in 1..n |->
                 IF p[i] = 0 THEN Die("compile_unit", 0, NoAttrs)
                 ELSE IF t[i] = "OK"
                 THEN Die("enumerator", p[i],
                          [name |-> [form |-> "string", val |-> "OK"],
                           const_value |-> [form |-> "data", val |-> 0]])
                 ELSE IF t[i] = "FAIL"
                 THEN Die("enumerator", p[i],
                          [name |-> [form |-> "string", val |-> "FAIL"],
                           const_value |-> [form |-> "sdata", val |-> 1]])
                 ELSE Die(t[i], p[i],
                          [name |-> [form |-> "string", val |-> "M" \o ToString(i)]])],
     badUnits |-> {},
     lines |-> [i \in 1..n |-> NoLines]]

\* bin is one of these binaries of at most MaxDie DIEs
MemberBins ==
    \E n \in 2..MaxDie : \E p \in Shapes(n) :
        \E t \in [{i \in 1..n : p[i] # 0} -> MemberKinds] :
            bin = MemberBin(n, p, t)

\* the offsets the callers pass: every DIE and one past the last
MemberOffsets == Offsets(bin) \cup {Len(bin.dies) + 1}

InitMembers == InitOpened /\ MemberBins

NextMembers ==
    \/ \E s \in SessionIds, o \in MemberOffsets : GetStructMembers(s, o)
    \/ \E s \in SessionIds, o \in MemberOffsets : GetEnumValues(s, o)
    \/ \E s \in SessionIds : EnumValuesTable(s)

SpecMembers == InitMembers /\ [][NextMembers]_vars

\* the binary shaped by p of function, parameter and pointer-type DIEs tagged
\* by t, in which every function has a name and the type attribute of every
\* parameter refers to offset ty
RepeatBin(n, p, t, ty) ==
    [dies |-> [i \in 1..n |->
                 IF p[i] = 0 THEN Die("compile_unit", 0, NoAttrs)
                 ELSE IF t[i] = "subprogram"
                 THEN Die(t[i], p[i],
                          [name |-> [form |-> "string", val |-> "f" \o ToString(i)]])
                 ELSE IF t[i] = "formal_parameter"
                 THEN Die(t[i], p[i], [type |-> [form |-> "ref", val |-> ty]])
                 ELSE Die(t[i], p[i], NoAttrs)],
     badUnits |-> {},
     lines |-> [i \in 1..n |-> NoLines]]

\* bin is one of these binaries of at most MaxDie DIEs
RepeatBins ==
    \E n \in 2..MaxDie : \E p \in Shapes(n) :
        \E t \in [{i \in 1..n : p[i] # 0}
                  -> {"subprogram", "formal_parameter", "pointer_type"}] :
            \E ty \in {2, n, Dangling} :
                bin = RepeatBin(n, p, t, ty)

InitRepeat == InitOpened /\ RepeatBins

NextRepeat ==
    \/ \E s \in SessionIds, c \in CuFilters : GetFunctions(s, c)
    \/ \E s \in SessionIds, c \in CuFilters : GetTypes(s, c)
    \/ \E s \in SessionIds, f \in FunctionFilters : GetParameters(s, f)
    \/ \E s \in SessionIds, c \in CuFilters, f \in FunctionFilters :
          GetVariables(s, c, f)

SpecRepeat == InitRepeat /\ [][NextRepeat]_vars

\* the kinds of DIE get_functions, get_types, get_structs and get_enums take
FilterTags == {"subprogram", "base_type", "structure_type", "enumeration_type"}

\* the parent of DIE i when the DIEs in roots start the units: the DIE before
\* it in a unit laid out as a chain, the root of its unit in a flat unit
FilterParent(roots, chain, i) ==
    IF i \in roots THEN 0
    ELSE IF chain THEN i - 1
    ELSE CHOOSE r \in roots : r < i /\ \A q \in roots : q < i => q <= r

\* the binary of n DIEs tagged by t whose units start at roots, every unit
\* with a line table of its own
FilterBin(n, roots, chain, t) ==
    [dies |-> [i \in 1..n |->
                 IF i \in roots THEN Die("compile_unit", 0, NoAttrs)
                 ELSE Die(t[i], FilterParent(roots, chain, i),
                          [name |-> [form |-> "string", val |-> "n" \o ToString(i)]])],
     badUnits |-> {},
     lines |-> [i \in 1..n |-> IF i \in roots THEN UnitLines(i) ELSE NoLines]]

\* bin is one of these binaries of at most MaxDie DIEs
FilterBins ==
    \E n \in 1..MaxDie : \E more \in SUBSET (2..n) : \E chain \in BOOLEAN :
        \E t \in [(2..n) \ more -> FilterTags] :
            bin = FilterBin(n, {1} \cup more, chain, t)

\* the cu_filter arguments: negative ones, the offset of every unit, an
\* offset that is no DIE's and one that is not the root of a unit
UnitFilters ==
    {-2, -1, 0} \cup Range(Units(bin))
    \cup {Min({d \in Offsets(bin) : bin.dies[d].parent # 0} \cup {Len(bin.dies) + 1})}

InitFilter == InitOpened /\ FilterBins

NextFilter ==
    \/ \E s \in SessionIds, c \in UnitFilters : GetFunctions(s, c)
    \/ \E s \in SessionIds, c \in UnitFilters : GetTypes(s, c)
    \/ \E s \in SessionIds, c \in UnitFilters : GetStructs(s, c)
    \/ \E s \in SessionIds, c \in UnitFilters : GetEnums(s, c)
    \/ \E s \in SessionIds, c \in UnitFilters : GetLineInfo(s, c)

SpecFilter == InitFilter /\ [][NextFilter]_vars

\* the rows a line program is made of: two ordinary rows and the row that
\* ends a sequence
LineRows ==
    {[address |-> a, file |-> "a.c", line |-> l, column |-> 0, is_stmt |-> TRUE,
      basic_block |-> FALSE, end_sequence |-> e]
     : a \in {16}, l \in {1, 2}, e \in BOOLEAN} \ 
    {[address |-> 16, file |-> "a.c", line |-> 2, column |-> 0, is_stmt |-> TRUE,
      basic_block |-> FALSE, end_sequence |-> TRUE]}

\* the line programs of at most MaxRows rows
RECURSIVE RowSeqs(_)
RowSeqs(n) ==
    IF n = 0 THEN {<<>>}
    ELSE RowSeqs(n - 1)
         \cup {Append(r, x) : r \in {q \in RowSeqs(n - 1) : Len(q) = n - 1},
                              x \in LineRows}

\* the line tables of a unit: a decoded program, or one of the two failures
LineTables ==
    {[res |-> "ok", rows |-> r] : r \in RowSeqs(MaxRows)}
    \cup {[res |-> f, rows |-> <<>>] : f \in {"srclines_failed", "lines_failed"}}

\* the binary of one or two units without children whose line tables are lt
LineBin(lt) ==
    [dies |-> [i \in 1..Len(lt) |-> Die("compile_unit", 0, NoAttrs)],
     badUnits |-> {},
     lines |-> lt]

LineBins ==
    \E k \in 1..2 : \E lt \in [1..k -> LineTables] : bin = LineBin(lt)

InitLines == InitOpened /\ LineBins

NextLines ==
    \E s \in SessionIds, c \in CuFilters : GetLineInfo(s, c)

SpecLines == InitLines /\ [][NextLines]_vars

\* the lifecycle operations together with an extractor, called on any
\* constructed session whatever its state
NextErr ==
    \/ Next
    \/ \E s \in SessionIds : GetFunctions(s, -1)

SpecErr == Init /\ [][NextErr]_vars

\* HTTP mode is entered with a database already built; the build loads impl_
\* once or twice in is_running()
InitHttp ==
    /\ has_libdwarf = TRUE
    /\ sessions = [s \in SessionIds |-> DefaultSession]
    /\ liveHandles = {}
    /\ openFds = {}
    /\ misuse = FALSE
    /\ bin = LifecycleBin
    /\ cursor = NoCursor
    /\ last_call = [op |-> "none"]
    /\ result = "void"
    /\ tn = Idle
    /\ \E r \in BOOLEAN : http = [NoHttp EXCEPT !.reread = r]

NextHttp ==
    \/ \E ok \in BOOLEAN : HttpStart(ok)
    \/ HttpInstallInt
    \/ HttpInstallTerm
    \/ HttpIsRunningTest
    \/ HttpIsRunningCall
    \/ HttpSleep
    \/ HttpRestoreInt
    \/ HttpRestoreTerm
    \/ HttpReturn
    \/ \E sig \in Signals : HttpSignal(sig)
    \/ HttpShutdown

SpecHttp == InitHttp /\ [][NextHttp]_vars

\* the lifecycle over a file that opens and a file that is missing, with
\* every extractor called between its operations
NextClosed ==
    \/ \E s \in SessionIds : Construct(s)
    \/ \E s \in SessionIds : Close(s)
    \/ \E s \in SessionIds : Destroy(s)
    \/ \E s \in SessionIds, p \in {"a.out", "missing"} : Open(s, p)
    \/ \E s, o \in SessionIds : MoveConstruct(s, o)
    \/ \E s, o \in SessionIds : MoveAssign(s, o)
    \/ \E s \in SessionIds : GetCompilationUnits(s)
    \/ \E s \in SessionIds : GetFunctions(s, -1)
    \/ \E s \in SessionIds : GetVariables(s, -1, -1)
    \/ \E s \in SessionIds : GetTypes(s, -1)
    \/ \E s \in SessionIds : GetStructs(s, -1)
    \/ \E s \in SessionIds : GetEnums(s, -1)
    \/ \E s \in SessionIds : GetStructMembers(s, 1)
    \/ \E s \in SessionIds : GetEnumValues(s, 1)
    \/ \E s \in SessionIds : GetLineInfo(s, -1)
    \/ \E s \in SessionIds : GetCalls(s)
    \/ \E s \in SessionIds : GetNamespaces(s)
    \/ \E s \in SessionIds : GetLocalVariables(s, -1)
    \/ \E s \in SessionIds : GetParameters(s, -1)
    \/ \E s \in SessionIds : GetBaseClasses(s)

SpecClosed == Init /\ [][NextClosed]_vars

(***************************************************************************)
(* Claims about the session lifecycle (specification Spec).                *)
(***************************************************************************)
\* C6: whenever open(path) returns false, the session is closed afterwards:
\* is_open() is false, path() is empty, no provider handle and no file
\* descriptor is held and last_error() is a non-empty message, also when
\* the session was open on another binary before the call.
C6_FailedOpenLeavesClosed ==
    (last_call.op = "open" /\ result = FALSE) =>
        LET se == sessions[last_call.s] IN
        /\ ~is_open(last_call.s)
        /\ path(last_call.s) = ""
        /\ se.dbg = 0
        /\ se.fd = -1
        /\ last_error(last_call.s) # ""

\* a failed open() on a session that was open on a binary before the call
C6_Witness ==
    /\ last_call.op = "open"
    /\ result = FALSE
    /\ last_call.was_open
    /\ last_call.path = "nodbg"

\* the sessions that hold handle h
Holders(h) == {s \in SessionIds : sessions[s].alive /\ sessions[s].dbg = h}

\* C7: after any sequence of open, close, move-construction, move-assignment
\* and destruction, every live provider handle is held by exactly one
\* session, a session reports is_open() exactly when it holds a handle, a
\* moved-from session is closed, and no handle is released twice or leaked.
C7_ExclusiveOwnership ==
    /\ \A h \in liveHandles : Cardinality(Holders(h)) = 1
    /\ \A s \in SessionIds :
         /\ is_open(s) <=> (sessions[s].dbg # 0)
         /\ sessions[s].dbg # 0 => (sessions[s].alive /\ sessions[s].dbg \in liveHandles)
    /\ (last_call.op \in {"move_construct", "move_assign"} /\ last_call.s # last_call.other)
          => (~is_open(last_call.other) /\ sessions[last_call.other].dbg = 0)
    /\ ~misuse

\* a move assignment between two open sessions: the target's handle was
\* released and the source's handle 2 is now the target's
C7_Witness ==
    /\ last_call.op = "move_assign"
    /\ last_call.s # last_call.other
    /\ sessions[last_call.s].dbg = 2
    /\ is_open(last_call.s)
    /\ liveHandles = {2}

(***************************************************************************)
(* Claims about the tree walk and the variables extractor (SpecTree).      *)
(***************************************************************************)
ParentOf(b) == [d \in Offsets(b) |-> b.dies[d].parent]

\* the DIEs of the subtree under root, root included
Subtree(b, root) == {d \in Offsets(b) : IsAncestorOrSelf(ParentOf(b), root, d)}

\* the number of parent links from d up to its ancestor a
RECURSIVE Distance(_, _, _)
Distance(b, a, d) == IF a = d THEN 0 ELSE 1 + Distance(b, a, b.dies[d].parent)

\* the nearest function-tag DIE that properly encloses d, 0 if there is none
RECURSIVE InnermostFunction(_, _)
InnermostFunction(b, d) ==
    LET p == b.dies[d].parent IN
    IF p = 0 THEN 0
    ELSE IF b.dies[p].tag = "subprogram" THEN p
    ELSE InnermostFunction(b, p)

\* where in a sequence of visits (or of records with an offset) a DIE stands
VisitIndex(visits, d) == CHOOSE i \in 1..Len(visits) : visits[i].die = d

\* C2: get_variables(cu_filter, func_filter = f) with f >= 0 returns a
\* variable or formal-parameter DIE only if its innermost enclosing
\* function-tag ancestor has offset f; a unit-level variable, a variable of
\* a later unit or a variable of an outer function that follows function f
\* in traversal order is never returned for f. (Stated for the f that are
\* offsets of DIEs; no DIE sits at offset 0.)
C2_OnlyVariablesEnclosedByF ==
    (last_call.op = "get_variables" /\ last_call.func_filter \in Offsets(bin)) =>
        \A i \in 1..Len(result) :
            /\ result[i].tag \in {"variable", "formal_parameter"}
            /\ InnermostFunction(bin, result[i].offset) # 0
            /\ InnermostFunction(bin, result[i].offset) = last_call.func_filter

\* C8: walk(root, d, visit) calls visit exactly once for every DIE of the
\* subtree, the root included, with depth d plus the distance from the
\* root, every DIE after its parent and before any later sibling of itself
\* or of one of its ancestors (depth-first pre-order, siblings left to
\* right); the walk is finite.
C8_PreOrderWalk ==
    (last_call.op = "traverse_die") =>
        LET root == last_call.die
            sub == Subtree(bin, root)
            pos(d) == VisitIndex(result, d)
        IN
        /\ Len(result) = Cardinality(sub)
        /\ {result[i].die : i \in 1..Len(result)} = sub
        /\ result[1].die = root
        /\ \A i \in 1..Len(result) :
             result[i].depth = last_call.depth + Distance(bin, root, result[i].die)
        /\ \A d \in sub \ {root} : pos(bin.dies[d].parent) < pos(d)
        /\ \A d \in sub, a \in sub \ {root}, later \in sub :
             ( /\ IsAncestorOrSelf(ParentOf(bin), a, d)
               /\ bin.dies[later].parent = bin.dies[a].parent
               /\ later > a )
             => pos(d) < pos(later)

\* a walk from depth 1 over a root whose first child has a child of its own
\* and a later sibling
C8_Witness ==
    /\ last_call.op = "traverse_die"
    /\ last_call.depth = 1
    /\ Len(result) = 4
    /\ [i \in 1..4 |-> result[i].depth] = <<1, 2, 3, 2>>


(***************************************************************************)
(* Claims about get_high_pc, get_functions and the functions table         *)
(* (specification SpecFuncs).                                              *)
(***************************************************************************)
\* the DW_AT_inline value names one of the two declared-inline designations
InlineDeclared(b, die) ==
    LET at == die_attr(b, die, "inline") IN
    /\ dwarf_attr(b, die, "inline")
    /\ dwarf_formudata(at)
    /\ at.val \in {DW_INL_declared_inlined, DW_INL_declared_not_inlined}

\* C3: for every function DIE the record's declaration-only flag equals the
\* DIE's DW_AT_declaration flag (false if absent) whatever DW_AT_inline holds,
\* and the record's inline flag is true exactly when DW_AT_inline holds the
\* declared-inlined or the declared-not-inlined value.
C3_FlagsFollowAttributes ==
    /\ last_call.op = "get_functions" =>
         \A i \in 1..Len(result) :
            result[i].is_declaration
                = get_die_flag(bin, result[i].offset, "declaration")
    /\ last_call.op = "functions_table" =>
         \A i \in 1..Len(result) :
            /\ result[i].is_declaration
                 = get_die_flag(bin, result[i].id, "declaration")
            /\ result[i].is_inline = InlineDeclared(bin, result[i].id)

\* C4 as stated: with DW_AT_high_pc in an address form, get_high_pc(die, low)
\* returns a value >= low for every address held and every low.
C4_AddressFormAtLeastLow ==
    (/\ last_call.op = "get_high_pc"
     /\ die_attr(bin, last_call.die, "high_pc").form \in {"addr", "addrx"})
    => result >= last_call.low_pc

\* C4 amended: with DW_AT_high_pc in form DW_FORM_addr holding address a,
\* get_high_pc(die, low) returns a itself whatever low is, so the result is
\* >= low exactly when a >= low; get_functions stores that a as high_pc.
C4_AddressFormReturnsAddress ==
    /\ (/\ last_call.op = "get_high_pc"
        /\ die_attr(bin, last_call.die, "high_pc").form = "addr")
       => /\ result = die_attr(bin, last_call.die, "high_pc").val
          /\ (result >= last_call.low_pc)
               <=> (die_attr(bin, last_call.die, "high_pc").val >= last_call.low_pc)
    /\ last_call.op = "get_functions" =>
         \A i \in 1..Len(result) :
            die_attr(bin, result[i].offset, "high_pc").form = "addr"
            => result[i].high_pc = die_attr(bin, result[i].offset, "high_pc").val

\* an address-form end below the low argument is returned as it is
C4_Witness ==
    /\ last_call.op = "get_high_pc"
    /\ die_attr(bin, last_call.die, "high_pc") = [form |-> "addr", val |-> 64]
    /\ last_call.low_pc = 4096
    /\ result = 64

\* DW_AT_high_pc is in a constant form that holds an unsigned value
ConstantForm(at) == at.form \in {"data", "udata"}

\* C5: with DW_AT_high_pc in a constant form with value k, get_high_pc(die,
\* low) returns exactly low + k in unsigned arithmetic of the word width; a
\* function with low_pc = 0x1000 and a constant end of 0x40 yields a record
\* with high_pc = 0x1040.
C5_ConstantFormAddsLow ==
    /\ (/\ last_call.op = "get_high_pc"
        /\ ConstantForm(die_attr(bin, last_call.die, "high_pc")))
       => result = (last_call.low_pc
                    + die_attr(bin, last_call.die, "high_pc").val) % Word
    /\ last_call.op = "get_functions" =>
         \A i \in 1..Len(result) :
            LET lo == die_attr(bin, result[i].offset, "low_pc")
                hi == die_attr(bin, result[i].offset, "high_pc")
            IN  /\ (ConstantForm(hi) /\ lo.form = "addr")
                   => result[i].high_pc = (lo.val + hi.val) % Word
                /\ (ConstantForm(hi) /\ lo.form = "none")
                   => result[i].high_pc = hi.val
                /\ (lo = [form |-> "addr", val |-> 4096]
                    /\ hi = [form |-> "data", val |-> 64])
                   => (result[i].low_pc = 4096 /\ result[i].high_pc = 4160)

\* scenario A: low_pc 0x1000 and a constant end 0x40 give high_pc 0x1040
C5_Witness ==
    /\ last_call.op = "get_functions"
    /\ Len(result) = 1
    /\ die_attr(bin, result[1].offset, "low_pc") = [form |-> "addr", val |-> 4096]
    /\ die_attr(bin, result[1].offset, "high_pc") = [form |-> "data", val |-> 64]
    /\ result[1].high_pc = 4160


(***************************************************************************)
(* Claims about get_calls (specification SpecCalls).                       *)
(***************************************************************************)
\* the call-site DIEs in the order get_calls meets them
CallSites(b) ==
    SetToSeq({d \in Offsets(b) : b.dies[d].tag \in {"call_site", "GNU_call_site"}})

\* the origin attribute is absent or refers to an offset without a DIE
NoOrigin(b, die, attr) ==
    \/ ~dwarf_attr(b, die, attr)
    \/ ~dwarf_offdie_b(b, get_die_ref(b, die, attr))

\* C10: a call-site DIE whose origin reference cannot be resolved (both
\* origin attributes absent, or present but referring to an offset where no
\* DIE can be loaded) yields a record with empty callee_name and
\* callee_offset = 0, while caller_offset and caller_name are those of the
\* enclosing function.
C10_UnresolvedCallee ==
    last_call.op = "get_calls" =>
        \A i \in 1..Len(result) :
            LET die == CallSites(bin)[i]
                f == InnermostFunction(bin, die)
            IN  (NoOrigin(bin, die, "call_origin")
                 /\ NoOrigin(bin, die, "abstract_origin"))
                => /\ result[i].callee_name = ""
                   /\ result[i].callee_offset = 0
                   /\ result[i].caller_offset = f
                   /\ result[i].caller_name
                        = (IF f = 0 THEN "" ELSE get_die_string(bin, f, "name"))


(***************************************************************************)
(* Claims about units that fail to decode (specification SpecFail).        *)
(***************************************************************************)
\* the units that fail for the call: their root DIE cannot be obtained, or,
\* for get_line_info, their line program cannot be decoded
FailingUnits(b, call) ==
    b.badUnits \cup
    (IF call.op = "get_line_info"
     THEN {u \in Range(Units(b)) : b.lines[u].res # "ok"}
     ELSE {})

\* the same binary with every root DIE obtainable
NoFailure(b) == [b EXCEPT !.badUnits = {}]

\* the records the call appends while it scans the j-th unit of b
UnitRecords(b, call, j) ==
    LET before == scan(b, call, scan_locals(call), SubSeq(Units(b), 1, j - 1)).out
        after == scan(b, call, scan_locals(call), SubSeq(Units(b), 1, j)).out
    IN  SubSeq(after, Len(before) + 1, Len(after))

\* the records of the units that do not fail, as the call produces them for
\* these units when no unit fails
RecordsOfOtherUnits(b, call) ==
    Flatten([j \in 1..Len(Units(b)) |->
                IF Units(b)[j] \in FailingUnits(b, call) THEN <<>>
                ELSE UnitRecords(NoFailure(b), call, j)])

\* C9: for every extractor, every argument choice and every subset of units
\* whose root DIE cannot be obtained (for the line table also: whose line
\* program cannot be decoded), the failing units contribute no records, the
\* scan still reaches the last unit, and the records produced for all other
\* units are exactly those produced for them when no unit fails.
C9_FailingUnitsSkipped ==
    last_call.op \in {"get_variables", "get_functions", "get_calls", "get_line_info"}
    => /\ result = RecordsOfOtherUnits(bin, last_call)
       /\ cursor[sessions[last_call.s].dbg] = 0

\* C9 without get_variables' func_filter: it holds for the other extractors
\* and for get_variables called without a function filter
C9_WithoutFuncFilter ==
    (/\ last_call.op \in {"get_variables", "get_functions", "get_calls", "get_line_info"}
     /\ (last_call.op = "get_variables" => last_call.func_filter = -1))
    => /\ result = RecordsOfOtherUnits(bin, last_call)
       /\ cursor[sessions[last_call.s].dbg] = 0


(***************************************************************************)
(* Claims about get_type_name (specification SpecType).                    *)
(***************************************************************************)
\* die has tag tag and no readable name
Unnamed(b, die, tag) ==
    get_die_tag(b, die) = tag /\ get_die_string(b, die, "name") = ""

\* the type reference of die refers to a DIE
TypeOf(b, die) == get_die_ref(b, die, "type")
HasType(b, die) == TypeOf(b, die) # 0 /\ dwarf_offdie_b(b, TypeOf(b, die))

\* die is an unnamed pointer-type DIE whose type reference refers to an
\* unnamed const-type DIE whose type reference refers to the base type "int"
PointerToConstInt(b, die) ==
    /\ Unnamed(b, die, "pointer_type")
    /\ HasType(b, die)
    /\ Unnamed(b, TypeOf(b, die), "const_type")
    /\ HasType(b, TypeOf(b, die))
    /\ get_die_tag(b, TypeOf(b, TypeOf(b, die))) = "base_type"
    /\ get_die_string(b, TypeOf(b, TypeOf(b, die)), "name") = "int"

\* C1 as stated: get_type_name called on an unnamed pointer-type DIE whose
\* type reference refers to an unnamed const-type DIE whose type reference
\* refers to the base type named "int" returns "const int*".
C1_OnPointerDie ==
    (/\ last_call.op = "get_type_name"
     /\ last_call.returned
     /\ PointerToConstInt(bin, last_call.die))
    => result = "const int*"

\* C1 amended: get_type_name called on a DIE whose type reference refers to
\* such a pointer-type DIE returns "const int*"; called on the pointer-type
\* DIE itself it returns "const int", since the tag of the DIE passed in is
\* not part of the name.
C1_ThroughTypeReference ==
    (last_call.op = "get_type_name" /\ last_call.returned)
    => /\ (HasType(bin, last_call.die)
           /\ PointerToConstInt(bin, TypeOf(bin, last_call.die)))
          => result = "const int*"
       /\ PointerToConstInt(bin, last_call.die) => result = "const int"

\* a variable typed by the pointer DIE of scenario B got its type name
C1_Witness ==
    /\ last_call.op = "get_type_name"
    /\ last_call.returned
    /\ get_die_tag(bin, last_call.die) = "variable"
    /\ HasType(bin, last_call.die)
    /\ PointerToConstInt(bin, TypeOf(bin, last_call.die))
    /\ result = "const int*"


(***************************************************************************)
(* Claims about get_namespaces (specification SpecNs).                     *)
(***************************************************************************)
\* the nearest DIE with tag tag that properly encloses d, 0 if there is none
RECURSIVE NearestEnclosing(_, _, _)
NearestEnclosing(b, d, tag) ==
    LET p == b.dies[d].parent IN
    IF p = 0 THEN 0
    ELSE IF b.dies[p].tag = tag THEN p
    ELSE NearestEnclosing(b, p, tag)

\* C11: every namespace record's parent offset is the offset of the nearest
\* namespace DIE that encloses it in the DIE tree, and is 0 exactly when no
\* namespace encloses it.
C11_ParentIsEnclosingNamespace ==
    last_call.op = "get_namespaces" =>
        \A i \in 1..Len(result) :
            result[i].parent_offset
                = NearestEnclosing(bin, result[i].offset, "namespace")


(***************************************************************************)
(* Claims about get_local_variables (specification SpecLocals).            *)
(***************************************************************************)
\* the depth at which traverse_die visits d in the walk of its unit
RECURSIVE DepthInUnit(_, _)
DepthInUnit(b, d) ==
    IF b.dies[d].parent = 0 THEN 0 ELSE 1 + DepthInUnit(b, b.dies[d].parent)

\* C12: every record returned by get_local_variables has a func_offset that
\* is the offset of a function-tag DIE which is an ancestor of the variable
\* DIE (its innermost enclosing function); a variable DIE with no function
\* ancestor is not returned.
C12_LocalsOwnedByEnclosingFunction ==
    last_call.op = "get_local_variables" =>
        \A i \in 1..Len(result) :
            /\ InnermostFunction(bin, result[i].offset) # 0
            /\ result[i].func_offset = InnermostFunction(bin, result[i].offset)

\* C13: a variable-tag DIE visited at depth <= 1 (the unit root or a direct
\* child of it) never appears in the output of get_local_variables, for
\* every unit, every func_filter and whatever was visited before it.
C13_NoUnitLevelVariable ==
    last_call.op = "get_local_variables" =>
        \A i \in 1..Len(result) :
            /\ get_die_tag(bin, result[i].offset) = "variable"
            /\ DepthInUnit(bin, result[i].offset) >= 2

\* a call that matches the function visited before a unit-level variable
\* returns a deeper variable and leaves the unit-level one out
C13_Witness ==
    /\ last_call.op = "get_local_variables"
    /\ last_call.func_filter = 2
    /\ Len(bin.dies) = 4
    /\ get_die_tag(bin, 2) = "subprogram"
    /\ get_die_tag(bin, 3) = "variable" /\ bin.dies[3].parent = 2
    /\ get_die_tag(bin, 4) = "variable" /\ bin.dies[4].parent = 1
    /\ Len(result) = 1
    /\ result[1].offset = 3


(***************************************************************************)
(* Claims about get_parameters (specification SpecParams).                 *)
(***************************************************************************)
\* the unit root above d
RECURSIVE UnitOf(_, _)
UnitOf(b, d) == IF b.dies[d].parent = 0 THEN d ELSE UnitOf(b, b.dies[d].parent)

\* the function-tag DIE visited last before d in the walk of d's unit, or the
\* unit root if there is none
LastFunctionBefore(b, d) ==
    LET fs == {f \in UnitOf(b, d)..(d - 1) : get_die_tag(b, f) = "subprogram"} IN
    IF fs = {} THEN UnitOf(b, d) ELSE CHOOSE f \in fs : \A g \in fs : g <= f

\* the formal parameters visited between that DIE and d
ParametersBefore(b, d) ==
    {q \in (LastFunctionBefore(b, d) + 1)..(d - 1) :
        get_die_tag(b, q) = "formal_parameter"}

\* what get_parameters returns without a filter
AllParameters(b) ==
    scan(b, [op |-> "get_parameters", func_filter |-> -1],
         scan_locals([op |-> "get_parameters", func_filter |-> -1]), Units(b)).out

RECURSIVE SelectFunc(_, _)
SelectFunc(recs, f) ==
    IF recs = <<>> THEN <<>>
    ELSE (IF Head(recs).func_offset = f THEN <<Head(recs)>> ELSE <<>>)
         \o SelectFunc(Tail(recs), f)

\* C14: in get_parameters the first formal parameter visited after each
\* function-tag node gets index 0 and each further one visited before the
\* next function-tag node gets the previous index plus 1, so without filter
\* the records sharing a non-zero func_offset carry indices 0, 1, ..., k-1 in
\* output order; with func_filter = f the records returned for f carry the
\* same indices as in the unfiltered result.
C14_ParameterIndices ==
    last_call.op = "get_parameters" =>
        /\ \A i \in 1..Len(result) :
              result[i].index = Cardinality(ParametersBefore(bin, result[i].offset))
        /\ last_call.func_filter = -1 =>
              \A f \in Offsets(bin) :
                 LET of_f == SelectFunc(result, f) IN
                 \A k \in 1..Len(of_f) : of_f[k].index = k - 1
        /\ last_call.func_filter >= 0 =>
              result = SelectFunc(AllParameters(bin), last_call.func_filter)

\* an unfiltered call on a unit with a parameter before and a parameter
\* after the first function: the numbering restarts at the function
C14_Witness ==
    /\ last_call.op = "get_parameters"
    /\ last_call.func_filter = -1
    /\ Len(bin.dies) = 4
    /\ get_die_tag(bin, 2) = "formal_parameter"
    /\ get_die_tag(bin, 3) = "subprogram"
    /\ get_die_tag(bin, 4) = "formal_parameter"
    /\ Len(result) = 2
    /\ result[1].func_offset = 0 /\ result[1].index = 0
    /\ result[2].func_offset = 3 /\ result[2].index = 0


(***************************************************************************)
(* Claims about get_base_classes and its table (specification SpecBases).  *)
(***************************************************************************)
\* the inheritance DIEs in the order get_base_classes meets them
InheritanceDies(b) ==
    SetToSeq({d \in Offsets(b) : b.dies[d].tag = "inheritance"})

\* C15: every base_classes row carries an access value that is one of
\* public, protected or private, and it is private when the inheritance DIE
\* has no accessibility attribute; this holds for every value the
\* accessibility attribute can hold.
C15_AccessIsOneOfThree ==
    last_call.op = "base_classes_table" =>
        \A i \in 1..Len(result) :
            /\ result[i].access \in {"public", "protected", "private"}
            /\ ~has_die_attr(bin, InheritanceDies(bin)[i], "accessibility")
               => result[i].access = "private"


(***************************************************************************)
(* Claims about structs, their members and enumerators (specifications     *)
(* SpecStructs, SpecDecls and SpecMembers).                                *)
(***************************************************************************)
StructTags == {"structure_type", "class_type", "union_type"}

\* C16: every row of the structs table has kind "struct" exactly when its
\* DIE has the structure-type tag, "class" exactly when it has the class-type
\* tag and "union" exactly when it has the union-type tag; get_structs
\* returns only DIEs with one of these three tags, so the default branch of
\* the kind mapping is never taken.
C16_KindFollowsTag ==
    /\ last_call.op = "get_structs" =>
          \A i \in 1..Len(result) :
             /\ result[i].tag = get_die_tag(bin, result[i].offset)
             /\ result[i].tag \in StructTags
    /\ last_call.op = "structs_table" =>
          \A i \in 1..Len(result) :
             LET tag == get_die_tag(bin, result[i].id) IN
             /\ tag \in StructTags
             /\ result[i].kind = "struct" <=> tag = "structure_type"
             /\ result[i].kind = "class" <=> tag = "class_type"
             /\ result[i].kind = "union" <=> tag = "union_type"

\* the structs table built over a unit that holds a struct, a class and a
\* union: one row of each kind
C16_Witness ==
    /\ last_call.op = "structs_table"
    /\ {result[i].kind : i \in 1..Len(result)} = {"struct", "class", "union"}

\* the direct children of d with the given tag, in sibling order
ChildrenTagged(b, d, tag) ==
    SetToSeq({j \in Offsets(b) : b.dies[j].parent = d /\ get_die_tag(b, j) = tag})

\* the enums whose children are exactly the enumerators OK = 0 and FAIL = 1
OkFailEnums(b) ==
    {e \in Offsets(b) :
        /\ get_die_tag(b, e) = "enumeration_type"
        /\ LET kids == SetToSeq({j \in Offsets(b) : b.dies[j].parent = e}) IN
             /\ Len(kids) = 2
             /\ get_die_tag(b, kids[1]) = "enumerator"
             /\ get_die_tag(b, kids[2]) = "enumerator"
             /\ b.dies[kids[1]].attrs["name"].val = "OK"
             /\ b.dies[kids[1]].attrs["const_value"].val = 0
             /\ b.dies[kids[2]].attrs["name"].val = "FAIL"
             /\ b.dies[kids[2]].attrs["const_value"].val = 1}

RECURSIVE SelectEnum(_, _)
SelectEnum(rows, e) ==
    IF rows = <<>> THEN <<>>
    ELSE (IF Head(rows).enum_id = e THEN <<Head(rows)>> ELSE <<>>)
         \o SelectEnum(Tail(rows), e)

\* C17: on an open session get_struct_members(s) and get_enum_values(e)
\* return exactly one record per direct child of the given DIE that has the
\* member (respectively enumerator) tag, in sibling order, and no record for
\* a deeper descendant or for a child with another tag; an enum DIE with the
\* enumerators OK = 0 and FAIL = 1 yields exactly two enum_values rows with
\* those names and values, both with enum_id equal to the enum's offset.
C17_DirectChildrenOnly ==
    /\ last_call.op = "get_struct_members" =>
          LET kids == IF last_call.struct_offset \in Offsets(bin)
                      THEN ChildrenTagged(bin, last_call.struct_offset, "member")
                      ELSE <<>> IN
          /\ Len(result) = Len(kids)
          /\ \A i \in 1..Len(kids) :
                /\ result[i].offset = kids[i]
                /\ result[i].name = get_die_string(bin, kids[i], "name")
    /\ last_call.op = "get_enum_values" =>
          LET kids == IF last_call.enum_offset \in Offsets(bin)
                      THEN ChildrenTagged(bin, last_call.enum_offset, "enumerator")
                      ELSE <<>> IN
          /\ Len(result) = Len(kids)
          /\ \A i \in 1..Len(kids) :
                /\ result[i].offset = kids[i]
                /\ result[i].name = get_die_string(bin, kids[i], "name")
                /\ result[i].byte_size = bin.dies[kids[i]].attrs["const_value"].val
    /\ last_call.op = "enum_values_table" =>
          \A e \in OkFailEnums(bin) :
             LET rows == SelectEnum(result, e) IN
             /\ Len(rows) = 2
             /\ rows[1].name = "OK" /\ rows[1].value = 0 /\ rows[1].enum_id = e
             /\ rows[2].name = "FAIL" /\ rows[2].value = 1 /\ rows[2].enum_id = e
             /\ rows[1].id = ChildrenTagged(bin, e, "enumerator")[1]
             /\ rows[2].id = ChildrenTagged(bin, e, "enumerator")[2]

\* get_struct_members on a struct whose only child is a nested struct with
\* a member of its own: the member of the nested struct is not returned
C17_Witness ==
    /\ last_call.op = "get_struct_members"
    /\ Len(bin.dies) = 4
    /\ last_call.struct_offset = 2
    /\ get_die_tag(bin, 2) = "structure_type" /\ bin.dies[2].parent = 1
    /\ get_die_tag(bin, 3) = "structure_type" /\ bin.dies[3].parent = 2
    /\ get_die_tag(bin, 4) = "member" /\ bin.dies[4].parent = 3
    /\ result = <<>>

\* the enum_values table built over an enum with the enumerators OK = 0 and
\* FAIL = 1: the two rows of that enum
C17_EnumWitness ==
    /\ last_call.op = "enum_values_table"
    /\ OkFailEnums(bin) # {}
    /\ Len(result) = 2

\* the struct DIEs get_structs reports as declarations
DeclaredStructs(b) ==
    {d \in Offsets(b) : /\ get_die_tag(b, d) \in StructTags
                        /\ get_die_flag(b, d, "declaration")}

\* C18: the struct_members table contains no row whose struct_id is the
\* offset of a struct record with is_declaration = true, even when that
\* struct DIE has member-tag children; the members of every other struct
\* record are all there.
C18_NoMembersOfDeclarations ==
    last_call.op = "struct_members_table" =>
        /\ \A i \in 1..Len(result) : result[i].struct_id \notin DeclaredStructs(bin)
        /\ \A d \in Offsets(bin) :
              (get_die_tag(bin, d) \in StructTags /\ d \notin DeclaredStructs(bin)) =>
                 \A m \in Range(ChildrenTagged(bin, d, "member")) :
                    \E i \in 1..Len(result) :
                       result[i].id = m /\ result[i].struct_id = d

\* the table built over a unit whose only struct is a declaration with two
\* member children: no row
C18_Witness ==
    /\ last_call.op = "struct_members_table"
    /\ \E d \in DeclaredStructs(bin) : Len(ChildrenTagged(bin, d, "member")) = 2
    /\ result = <<>>


(***************************************************************************)
(* Claims about repeated scans (specification SpecRepeat).                 *)
(***************************************************************************)
\* what the call returns when the scan starts at the first unit
FreshScan(b, call) == scan(b, call, scan_locals(call), Units(b)).out

\* C19: on an open session over an unchanged binary no two records of one
\* extractor result share an offset, and whatever calls came before, a call
\* returns the record sequence that a scan from the first unit produces for
\* its arguments (same offsets, same reconstructed type names), so any two
\* calls of one extractor with the same arguments return identical
\* sequences; every call leaves the provider's unit cursor at the start.
C19_RepeatableScans ==
    last_call.op \in {"get_functions", "get_types", "get_parameters",
                      "get_variables"} =>
        /\ \A i, j \in 1..Len(result) :
              i # j => result[i].offset # result[j].offset
        /\ result = FreshScan(bin, last_call)
        /\ last_call.op = "get_parameters" =>
              \A i \in 1..Len(result) :
                 result[i].type = get_type_name(bin, result[i].offset)
        /\ cursor[sessions[last_call.s].dbg] = 0

\* the binary never changes under the extractors
C19_BinaryUnchanged == [][bin' = bin]_vars

\* get_parameters has returned one typed record from each of two units
C19_Witness ==
    /\ last_call.op = "get_parameters"
    /\ Len(result) = 2
    /\ UnitOf(bin, result[1].offset) # UnitOf(bin, result[2].offset)
    /\ result[1].type = "<unknown>"
    /\ result[2].type = "<unknown>"


(***************************************************************************)
(* Claims about the unit filter (specification SpecFilter).                *)
(***************************************************************************)
\* the call with its cu_filter taken away
Unfiltered(call) == [call EXCEPT !.cu_filter = -1]

\* the records the unfiltered call returns for the unit whose root DIE sits
\* at c, none if there is no such unit
RecordsOfUnit(b, call, c) ==
    Flatten([j \in 1..Len(Units(b)) |->
                IF Units(b)[j] = c THEN UnitRecords(b, Unfiltered(call), j)
                ELSE <<>>])

\* C20: for get_functions, get_types, get_structs, get_enums and
\* get_line_info a call with cu_filter = c >= 0 returns exactly the records
\* the unfiltered call returns for the unit whose root DIE offset is c, in the
\* same order, and nothing when no unit has that offset; every negative
\* cu_filter returns the records of all units.
C20_FilterSelectsUnit ==
    last_call.op \in {"get_functions", "get_types", "get_structs", "get_enums",
                      "get_line_info"} =>
        LET c == last_call.cu_filter IN
        /\ c < 0 => result = FreshScan(bin, Unfiltered(last_call))
        /\ c >= 0 => result = RecordsOfUnit(bin, last_call, c)
        /\ (c >= 0 /\ c \notin Range(Units(bin))) => result = <<>>
        /\ (c >= 0 /\ last_call.op # "get_line_info") =>
              \A i \in 1..Len(result) : UnitOf(bin, result[i].offset) = c

\* get_functions filtered to the second of two units that both hold a
\* function: only the function of the second unit is returned
C20_Witness ==
    /\ last_call.op = "get_functions"
    /\ Len(Units(bin)) = 2
    /\ last_call.cu_filter = Units(bin)[2]
    /\ Len(result) = 1
    /\ Len(FreshScan(bin, Unfiltered(last_call))) = 2


(***************************************************************************)
(* Claims about the line table (specification SpecLines).                  *)
(***************************************************************************)
\* the units get_line_info visits: those the filter lets through and whose
\* line program the provider decodes
LineUnits(b, call) ==
    {u \in Range(Units(b)) :
        /\ u \notin b.badUnits
        /\ (call.cu_filter < 0 \/ call.cu_filter = u)
        /\ b.lines[u].res = "ok"}

\* the rows the provider decoded for the visited units, unit after unit
DecodedRows(b, call) ==
    Flatten([j \in 1..Len(Units(b)) |->
                IF Units(b)[j] \in LineUnits(b, call)
                THEN b.lines[Units(b)[j]].rows ELSE <<>>])

\* the number of records emitted before those of unit u
RowsBefore(b, call, u) ==
    Len(Flatten([j \in 1..Len(Units(b)) |->
                    IF Units(b)[j] \in LineUnits(b, call) /\ Units(b)[j] < u
                    THEN b.lines[Units(b)[j]].rows ELSE <<>>]))

\* C21: get_line_info emits, for each unit it visits, exactly one LineRecord
\* per row the provider decoded, in the provider's order with nothing
\* dropped, added or reordered; when the last row of a unit's line program
\* has end_sequence = true, it is the last record emitted for that unit.
C21_LineRecordsProjectRows ==
    last_call.op = "get_line_info" =>
        LET rows == DecodedRows(bin, last_call) IN
        /\ Len(result) = Len(rows)
        /\ \A i \in 1..Len(rows) :
              /\ result[i].address = rows[i].address
              /\ result[i].file = rows[i].file
              /\ result[i].line = rows[i].line
              /\ result[i].column = rows[i].column
              /\ result[i].is_stmt = rows[i].is_stmt
              /\ result[i].basic_block = rows[i].basic_block
              /\ result[i].end_sequence = rows[i].end_sequence
        /\ \A u \in LineUnits(bin, last_call) :
              LET n == Len(bin.lines[u].rows)
                  last == RowsBefore(bin, last_call, u) + n IN
              (n > 0 /\ bin.lines[u].rows[n].end_sequence) =>
                  /\ result[last].end_sequence
                  /\ result[last].line = bin.lines[u].rows[n].line

\* an unfiltered call over two units whose programs both end with an
\* end_sequence row after an ordinary row
C21_Witness ==
    /\ last_call.op = "get_line_info"
    /\ last_call.cu_filter = -1
    /\ Len(result) = 4
    /\ ~result[1].end_sequence /\ result[2].end_sequence
    /\ ~result[3].end_sequence /\ result[4].end_sequence
    /\ result[1].line = 2 /\ result[3].line = 2


(***************************************************************************)
(* Claims about reconstructed type names (specifications SpecType,         *)
(* SpecLoop and SpecMods).                                                 *)
(***************************************************************************)
\* the qualifier word and the symbol a modifier tag stands for
QualifierWord(tag) ==
    CASE tag = "const_type" -> "const "
      [] tag = "volatile_type" -> "volatile "
      [] tag = "restrict_type" -> "restrict "
      [] OTHER -> ""

ModifierSymbol(tag) ==
    CASE tag = "pointer_type" -> "*"
      [] tag = "reference_type" -> "&"
      [] tag = "rvalue_reference_type" -> "&&"
      [] tag = "array_type" -> "[]"
      [] OTHER -> ""

RecognisedModifiers ==
    {"pointer_type", "reference_type", "rvalue_reference_type", "array_type",
     "const_type", "volatile_type", "restrict_type"}

\* d is an unnamed DIE with a recognised modifier tag
UnnamedModifier(b, d) ==
    get_die_string(b, d, "name") = "" /\ get_die_tag(b, d) \in RecognisedModifiers

\* the unnamed modifier DIEs m1, ..., mn met from DIE d on by following type
\* references, at most fuel of them
RECURSIVE ModifierChain(_, _, _)
ModifierChain(b, d, fuel) ==
    IF fuel = 0 \/ ~UnnamedModifier(b, d) THEN <<>>
    ELSE <<d>> \o (IF HasType(b, d) THEN ModifierChain(b, TypeOf(b, d), fuel - 1)
                   ELSE <<>>)

\* a chain longer than the binary has DIEs runs through a cycle
CyclicChain(b, d) ==
    Len(ModifierChain(b, d, Len(b.dies) + 1)) > Len(b.dies)

\* the words (the symbols) of mn, ..., m1 in that order
RECURSIVE Qualifiers(_, _)
Qualifiers(b, chain) ==
    IF chain = <<>> THEN ""
    ELSE Qualifiers(b, Tail(chain)) \o QualifierWord(get_die_tag(b, Head(chain)))

RECURSIVE Symbols(_, _)
Symbols(b, chain) ==
    IF chain = <<>> THEN ""
    ELSE Symbols(b, Tail(chain)) \o ModifierSymbol(get_die_tag(b, Head(chain)))

\* what the chain that starts at the loadable DIE first ends in
ChainCore(b, first) ==
    LET chain == ModifierChain(b, first, Len(b.dies) + 1)
        end == IF chain = <<>> THEN first ELSE TypeOf(b, chain[Len(chain)])
    IN  IF end = 0 THEN "void"
        ELSE IF ~dwarf_offdie_b(b, end) THEN "<unknown>"
        ELSE IF get_die_string(b, end, "name") # ""
        THEN get_die_string(b, end, "name")
        ELSE "<anonymous>"

\* C22: get_type_name never returns an empty string: it returns "void" when
\* the DIE has no type reference, "<unknown>" when the first referenced DIE
\* cannot be loaded, and otherwise the accumulated prefix and suffix wrapped
\* around the first name found, around "void" when an unnamed modifier has no
\* further type reference, around "<unknown>" when a further reference
\* cannot be loaded, and around "<anonymous>" when an unnamed DIE has a tag
\* that is not a recognised modifier.
C22_TypeNameCases ==
    (last_call.op = "get_type_name" /\ last_call.returned) =>
        LET die == last_call.die
            first == TypeOf(bin, die)
            chain == ModifierChain(bin, first, Len(bin.dies) + 1)
        IN
        /\ result # ""
        /\ first = 0 => result = "void"
        /\ (first # 0 /\ ~dwarf_offdie_b(bin, first)) => result = "<unknown>"
        /\ HasType(bin, die) =>
              result = Qualifiers(bin, chain) \o ChainCore(bin, first)
                       \o Symbols(bin, chain)

\* the call has returned a name wrapped around "<unknown>": the chain went
\* through a modifier whose type reference cannot be loaded
C22_Witness ==
    /\ last_call.op = "get_type_name"
    /\ last_call.returned
    /\ HasType(bin, last_call.die)
    /\ result = "const <unknown>*"

\* the tags of the DIEs of a chain, m1 first
TagsOf(b, chain) == [i \in 1..Len(chain) |-> get_die_tag(b, chain[i])]

\* C25: for a DIE whose type reference leads through unnamed modifier DIEs
\* m1, ..., mn (m1 referenced first) to a DIE named N, get_type_name returns
\* P + N + S, where P is the qualifier words among mn, ..., m1 in that order
\* and S the symbols among mn, ..., m1 in that order: pointer -> const -> int
\* gives "const int*", pointer -> array -> int gives "int[]*", and
\* const -> pointer -> int gives the same string as pointer -> const -> int.
C25_ModifiersInnermostFirst ==
    (last_call.op = "get_type_name" /\ last_call.returned
     /\ HasType(bin, last_call.die)
     /\ dwarf_offdie_b(bin, TypeOf(bin, last_call.die))) =>
        LET first == TypeOf(bin, last_call.die)
            chain == ModifierChain(bin, first, Len(bin.dies) + 1)
            end == IF chain = <<>> THEN first ELSE TypeOf(bin, chain[Len(chain)])
            N == IF end # 0 /\ dwarf_offdie_b(bin, end)
                 THEN get_die_string(bin, end, "name") ELSE ""
            tags == TagsOf(bin, chain)
        IN  N # "" =>
              /\ result = Qualifiers(bin, chain) \o N \o Symbols(bin, chain)
              /\ (N = "int" /\ tags = <<"pointer_type", "const_type">>)
                    => result = "const int*"
              /\ (N = "int" /\ tags = <<"pointer_type", "array_type">>)
                    => result = "int[]*"
              /\ (N = "int" /\ tags = <<"const_type", "pointer_type">>)
                    => result = "const int*"

\* the call on a variable whose type is pointer -> array -> int has returned
C25_Witness ==
    /\ last_call.op = "get_type_name"
    /\ last_call.returned
    /\ last_call.die = 2
    /\ Len(bin.dies) = 5
    /\ get_die_tag(bin, 3) = "pointer_type"
    /\ get_die_tag(bin, 4) = "array_type"
    /\ get_die_tag(bin, 5) = "base_type"
    /\ result = "int[]*"


(***************************************************************************)
(* Claims about the scope range of local variables (specification          *)
(* SpecScopes).                                                            *)
(***************************************************************************)
\* the function and block DIEs of the unit of DIE v that come before v; the
\* offsets of a unit are in pre-order
ScopesBefore(b, v) ==
    {d \in 1..(v - 1) :
        /\ UnitOf(b, d) = UnitOf(b, v)
        /\ get_die_tag(b, d) \in {"subprogram", "lexical_block"}}

Latest(S) == CHOOSE d \in S : \A e \in S : e <= d

\* the range of DIE d: its start, and the end computed from that start
RangeOf(b, d) ==
    LET low == get_die_unsigned(b, d, "low_pc", 0)
    IN  <<low, get_high_pc(b, d, low)>>

\* C26: each local-variable record carries the range of the function or
\* lexical-block DIE visited most recently before it in pre-order within the
\* same unit, and (0, 0) if there is none; the range is not restored when a
\* block is left.
C26_ScopeOfLatestFunctionOrBlock ==
    last_call.op = "get_local_variables" =>
        \A i \in 1..Len(result) :
            LET v == result[i].offset
                S == ScopesBefore(bin, v)
            IN  <<result[i].scope_low_pc, result[i].scope_high_pc>> =
                    IF S = {} THEN <<0, 0>> ELSE RangeOf(bin, Latest(S))

\* a variable that follows a closed block inside its function was recorded
\* with the range of the block, which is not the range of the function
C26_Witness ==
    /\ last_call.op = "get_local_variables"
    /\ Len(bin.dies) = 4
    /\ get_die_tag(bin, 2) = "subprogram" /\ bin.dies[2].parent = 1
    /\ get_die_tag(bin, 3) = "lexical_block" /\ bin.dies[3].parent = 2
    /\ get_die_tag(bin, 4) = "variable" /\ bin.dies[4].parent = 2
    /\ Len(result) = 1
    /\ result[1].offset = 4
    /\ result[1].func_offset = 2
    /\ <<result[1].scope_low_pc, result[1].scope_high_pc>> = RangeOf(bin, 3)
    /\ RangeOf(bin, 3) # RangeOf(bin, 2)


(***************************************************************************)
(* Claims about the order of namespace parents (specification SpecNs).     *)
(***************************************************************************)
\* the namespace DIEs of the unit of DIE v that come before v in pre-order
NamespacesBefore(b, v) ==
    {d \in 1..(v - 1) :
        UnitOf(b, d) = UnitOf(b, v) /\ get_die_tag(b, d) = "namespace"}

\* the positions in recs of the records of the unit u, in order
RECURSIVE PositionsOfUnit(_, _, _, _)
PositionsOfUnit(b, recs, u, i) ==
    IF i > Len(recs) THEN <<>>
    ELSE (IF UnitOf(b, recs[i].offset) = u THEN <<i>> ELSE <<>>)
         \o PositionsOfUnit(b, recs, u, i + 1)

\* C27: each namespace record's parent offset is the offset of the namespace
\* DIE visited immediately before it in pre-order within the same unit, and
\* 0 for the first namespace of every unit; the k-th namespace of a unit has
\* the (k-1)-th as parent, also when the two are siblings, and every
\* non-zero parent offset is the offset of an earlier record.
C27_ParentIsPreviousNamespace ==
    last_call.op = "get_namespaces" =>
        /\ \A i \in 1..Len(result) :
              LET S == NamespacesBefore(bin, result[i].offset)
              IN  /\ result[i].parent_offset = IF S = {} THEN 0 ELSE Latest(S)
                  /\ result[i].parent_offset # 0 =>
                        \E j \in 1..(i - 1) :
                            result[j].offset = result[i].parent_offset
        /\ \A u \in Offsets(bin) :
              LET pos == PositionsOfUnit(bin, result, u, 1)
              IN  \A k \in 1..Len(pos) :
                      result[pos[k]].parent_offset =
                          IF k = 1 THEN 0 ELSE result[pos[k - 1]].offset

\* two sibling namespaces of a unit were recorded, the first with parent 0 and
\* the second with the first as parent
C27_Witness ==
    /\ last_call.op = "get_namespaces"
    /\ Len(bin.dies) = 4
    /\ bin.dies[2].parent = 1 /\ bin.dies[3].parent = 1
    /\ bin.dies[4].parent = 0
    /\ Len(result) = 2
    /\ result[1].offset = 2 /\ result[1].parent_offset = 0
    /\ result[2].offset = 3 /\ result[2].parent_offset = 2


(***************************************************************************)
(* Claims about the location preview (specification SpecLocs).             *)
(***************************************************************************)
\* one hexadecimal digit in lower case
LowerHexDigit(d) ==
    IF d < 10 THEN ToString(d)
    ELSE CASE d = 10 -> "a" [] d = 11 -> "b" [] d = 12 -> "c"
           [] d = 13 -> "d" [] d = 14 -> "e" [] OTHER -> "f"

\* the two-digit hex of the first k bytes of bytes, in order
RECURSIVE HexOfFirst(_, _)
HexOfFirst(bytes, k) ==
    IF k = 0 THEN ""
    ELSE HexOfFirst(bytes, k - 1)
         \o LowerHexDigit(bytes[k] \div 16) \o LowerHexDigit(bytes[k] % 16)

Shown(n) == IF n < 32 THEN n ELSE 32

ExpressionForms == {"exprloc", "block1", "block2", "block4", "block"}

\* C28: for an attribute in an expression or block form holding n readable
\* bytes, get_location_string returns the two-digit lowercase hex of the
\* first min(n, 32) bytes in order, followed by "..." exactly when n > 32, so
\* the result is never longer than 67 characters; for the section-offset
\* form it returns "[loclist]"; for an absent attribute or any other form
\* it returns the empty string.
C28_LocationPreview ==
    last_call.op = "get_location_string" =>
        LET at == die_attr(bin, last_call.die, last_call.attr) IN
        /\ (at.form \in ExpressionForms /\ at.val.res = "ok") =>
              LET n == Len(at.val.bytes) IN
              /\ result = HexOfFirst(at.val.bytes, Shown(n))
                           \o (IF n > 32 THEN "..." ELSE "")
              /\ Len(result) = 2 * Shown(n) + (IF n > 32 THEN 3 ELSE 0)
              /\ Len(result) <= 67
        /\ at.form = "sec_offset" => result = "[loclist]"
        /\ at.form \notin ExpressionForms \cup {"sec_offset"} => result = ""

\* the preview of a block of 33 bytes was taken: 32 bytes and the mark
C28_Witness ==
    /\ last_call.op = "get_location_string"
    /\ last_call.attr = "location"
    /\ die_attr(bin, last_call.die, "location").form = "block1"
    /\ die_attr(bin, last_call.die, "location").val.res = "ok"
    /\ Len(die_attr(bin, last_call.die, "location").val.bytes) = 33
    /\ die_attr(bin, last_call.die, "location").val.bytes[2] = 172
    /\ Len(result) = 67
    /\ result = HexOfFirst(die_attr(bin, last_call.die, "location").val.bytes, 32)
                 \o "..."


(***************************************************************************)
(* Claims about the error text (specification SpecErr).                    *)
(***************************************************************************)
\* the text a failed open(p) writes
OpenErrors(p) ==
    IF ~has_libdwarf THEN {"libdwarf not available"}
    ELSE IF p = "missing" THEN {"Failed to open file: missing"}
    ELSE IF p = "nodbg" THEN {"No DWARF debug info found in: nodbg"}
    ELSE {"Failed to initialize DWARF: " \o m : m \in InitErrMsgs}

\* the step is a failed open() on session s
FailedOpen(s) ==
    last_call'.op = "open" /\ last_call'.s = s /\ result' = FALSE

\* the step is a move that has s as its source or as its target
MoveOf(s) ==
    /\ last_call'.op \in {"move_construct", "move_assign"}
    /\ s \in {last_call'.s, last_call'.other}

\* the error text of session object s differs after the step
ErrorChanged(s) ==
    /\ sessions[s].alive /\ sessions'[s].alive
    /\ sessions'[s].last_error # sessions[s].last_error

\* C23 as stated: last_error() of a session object always equals the message
\* of the most recent failed open() on that object, empty if none has
\* failed; so nothing but a failed open() on the object changes it.
C23_OnlyFailedOpenWrites ==
    [][\A s \in SessionIds : ErrorChanged(s) => FailedOpen(s)]_vars

\* C23 amended: a constructed session has an empty error text, a failed
\* open() writes its message, and close(), a successful open() and every
\* extractor call leave the text unchanged; beside a failed open() only a
\* move changes it: the target takes over the source's text and the source
\* is left with its text or with the empty string.
C23_LastErrorFrame ==
    [][\A s \in SessionIds :
          /\ (last_call'.op = "construct" /\ last_call'.s = s)
                => sessions'[s].last_error = ""
          /\ FailedOpen(s) => sessions'[s].last_error \in OpenErrors(last_call'.path)
          /\ ErrorChanged(s) => (FailedOpen(s) \/ MoveOf(s))
          /\ (MoveOf(s) /\ last_call'.s = s /\ last_call'.other # s)
                => /\ sessions'[s].last_error = sessions[last_call'.other].last_error
                   /\ sessions'[last_call'.other].last_error
                         \in MovedFrom(sessions[last_call'.other].last_error)]_vars

\* an extractor call on a session that is open on a.out and still reports
\* the failure of an earlier open()
C23_Witness ==
    /\ last_call.op = "get_functions"
    /\ is_open(last_call.s)
    /\ path(last_call.s) = "a.out"
    /\ last_error(last_call.s) = "Failed to open file: missing"
    /\ Len(result) = 1


\* the chain of type references that starts at die never ends
NeverEnds(b, die) == HasType(b, die) /\ CyclicChain(b, TypeOf(b, die))

\* C24: get_type_name terminates on every input whose chain of type
\* references reaches a named DIE, a DIE without a type reference, an offset
\* that cannot be loaded, or an unnamed DIE with an unrecognised tag; on a
\* chain of unnamed recognised-modifier DIEs whose type references form a
\* cycle it never returns, because nothing stops the loop.
C24_ReturnsUnlessCyclic ==
    /\ [](last_call.op = "get_type_name" =>
            /\ NeverEnds(bin, last_call.die) => ~last_call.returned
            /\ ~NeverEnds(bin, last_call.die) =>
                  (last_call.returned \/ tn.iter < Len(bin.dies)))
    /\ (last_call.op = "get_type_name" /\ ~NeverEnds(bin, last_call.die))
          ~> (last_call.op = "get_type_name" /\ last_call.returned)

\* a call on a cyclic chain has gone through the loop more often than the
\* chain has DIEs and is still in it
C24_Witness ==
    /\ last_call.op = "get_type_name"
    /\ NeverEnds(bin, last_call.die)
    /\ ~last_call.returned
    /\ tn.pc = "loop"
    /\ tn.iter = MaxIter


(***************************************************************************)
(* Claims about extractors on a session that is not open (specification    *)
(* SpecClosed).                                                            *)
(***************************************************************************)
ExtractorOps ==
    {"get_compilation_units", "get_functions", "get_variables", "get_types",
     "get_structs", "get_enums", "get_struct_members", "get_enum_values",
     "get_line_info", "get_calls", "get_namespaces", "get_local_variables",
     "get_parameters", "get_base_classes"}

\* the step is a call of an extractor on session s
ExtractorCall(s) ==
    /\ last_call'.op \in ExtractorOps
    /\ last_call'.s = s

\* C29: every extractor called on a session that is not open (never opened,
\* closed, left closed by a failed open, or moved-from) returns an empty
\* sequence without calling the provider and leaves is_open(), path() and
\* last_error() unchanged.
C29_NotOpenGivesNothing ==
    [][\A s \in SessionIds :
          (ExtractorCall(s) /\ ~sessions[s].is_open) =>
              /\ result' = <<>>
              /\ UNCHANGED <<cursor, liveHandles, openFds, misuse>>
              /\ sessions' = sessions]_vars

\* an extractor has returned nothing on a session that is not open and has
\* kept the error text of a failed open, while another session is open
C29_Witness ==
    /\ last_call.op = "get_compilation_units"
    /\ ~sessions[last_call.s].is_open
    /\ sessions[last_call.s].last_error = "Failed to open file: missing"
    /\ result = <<>>
    /\ \E o \in SessionIds : sessions[o].is_open


(***************************************************************************)
(* Claims about HTTP mode (specification SpecHttp).                        *)
(***************************************************************************)
\* C30: in HTTP mode the wait loop never calls into the server
\* implementation after the signal handler's stop() has released it: the
\* release cannot fall between is_running()'s null test and its call on the
\* implementation, and the handler is installed only while g_http_server
\* points at a live server.
C30_NoCallAfterRelease ==
    /\ http.fault = "none"
    /\ http.pc = "is_running_call" => http.impl # "null"
    /\ http.handlers # {} => (http.g_http_server = "server" /\ http.server)
====
